---- MODULE Spec2Model ----
(***************************************************************************)
(* A model of the transit-isochrone core of relocate-app:                  *)
(*   - scripts/compute_bus_areas.py   nearest stop, traverse_from_stop     *)
(*   - scripts/build_adjacency_by_route.py   build_adjacency               *)
(*   - app.py   generate_transit_isochrone, the disk grouping and the      *)
(*              polygon rings                                              *)
(*                                                                         *)
(* Numbers.  The code computes in floating point; the model computes the  *)
(* same expressions exactly, in integers, in units that make every value  *)
(* of the model's inputs an integer:                                       *)
(*   - compute_bus_areas: times in ticks of 1/56 s (1.4 m/s, 8.0 m/s and   *)
(*     the 70% walk share all divide evenly);                              *)
(*   - app.py: times in ticks of 1/2000 min (80 m/min and 500 m/min        *)
(*     divide evenly), lengths in metres, coordinates in units of          *)
(*     1/111000 degree, so that the code's factor 111000 (metres per       *)
(*     degree) is 1 metre per coordinate unit.                             *)
(* An optional value (Python None) is the empty sequence, a present value  *)
(* v is <<v>>.                                                             *)
(***************************************************************************)
EXTENDS Integers, Sequences, FiniteSets, TLC

VARIABLES
    \* ---- scripts/compute_bus_areas.py ----
    shape_map,      \* adjacency of the (route, shape) group: stop -> entry
    stop_dist,      \* haversine distance work -> stop, or None (no coordinates)
    time_minutes,   \* --time-minutes
    bus_pc,         \* position in main: "idle", "start", "loop", "ret", "done"
    remaining,      \* main: remaining (ticks), the total_seconds of the traversal
    trav,           \* traverse_from_stop's locals: cur, acc, visited, results
    out_rows,       \* main: out_rows
    \* ---- app.py ----
    transit,        \* generate_transit_isochrone's arguments and locals
    grp,            \* group_connected_circles' argument and locals
    geom,           \* a geometry function's argument and the ring it returned
    bld,            \* build_adjacency's arguments and locals
    stop_times,     \* the rows of the stop_times file build_sqlite reads
    isochrone_cache,\* app.py's global isochrone_cache: cache_key -> entry
    ORS_API_KEY,    \* app.py's global ORS_API_KEY ("" when not configured)
    now,            \* datetime.now(), in hours
    req,            \* per server thread: get_isochrone's locals and response
    served          \* the number of requests received so far

busVars == <<shape_map, stop_dist, time_minutes, bus_pc, remaining, trav, out_rows>>

buildVars == <<bld, stop_times>>

apiVars == <<isochrone_cache, ORS_API_KEY, now, req, served>>

vars == <<busVars, transit, grp, geom, buildVars, apiVars>>

----------------------------------------------------------------------------
(* Optional values and small helpers                                       *)

None == <<>>

Some(v) == <<v>>

IsNone(x) == x = <<>>

Val(x) == x[1]

Min(a, b) == IF a <= b THEN a ELSE b

Abs(a) == IF a < 0 THEN -a ELSE a

\* Python round() of the fraction n/d (d > 0): to nearest, ties to even.
RoundHalfEven(n, d) ==
    LET q == n \div d
        r == n - q * d
    IN  IF 2 * r < d THEN q
        ELSE IF 2 * r > d THEN q + 1
        ELSE IF q % 2 = 0 THEN q ELSE q + 1

----------------------------------------------------------------------------
(* scripts/compute_bus_areas.py                                            *)

Stops == {"A", "B", "C"}

\* The order in which load_adjacency met the stops (dict insertion order).
StopOrder == <<"A", "B", "C">>

\* Ticks per second of the bus script's clock.
TPS == 8 * 7

BOARD_TIME == 20

BUS_SPEED_FALLBACK == 8

\* WALK_SPEED = 1.4 m/s, as the fraction 7/5
WALK_SPEED_NUM == 7

WALK_SPEED_DEN == 5

\* (travel_time_to_next, travel_distance_to_next) of the model's adjacency rows:
\* seconds and metres; 80 m is 10 s at the fallback speed.
TravelPairs == {<<None, None>>, <<None, Some(80)>>, <<Some(30), None>>, <<Some(0), None>>}

\* One row of load_adjacency: (next_stop, tt_s, td_m); "" is an empty next_stop_id.
Entries == {[next |-> n, tt |-> p[1], td |-> p[2]] : n \in Stops \cup {""}, p \in TravelPairs}

\* per_shape[(route, shape)]: the stops of the group that have a row.
AdjMaps == UNION {[D -> Entries] : D \in SUBSET Stops}

\* Distances work -> stop (metres) the model draws: 42 m is 30 s of walking,
\* 840 m is 600 s.
StopDists ==
    { [s \in Stops |-> None],
      [s \in Stops |-> IF s = "A" THEN Some(42) ELSE IF s = "B" THEN Some(840) ELSE None],
      [s \in Stops |-> IF s = "A" THEN Some(840) ELSE Some(42)],
      [s \in Stops |-> Some(840)] }

BusMinutes == {1, 2, 3}

\* find_nearest_stop_for_shape, for one (route, shape) group: the first stop
\* (in the map's order) at the least distance; None when no stop has coordinates.
RECURSIVE NearestFrom(_, _, _, _)
NearestFrom(stops_map, dist, i, best) ==
    IF i > Len(StopOrder) THEN best
    ELSE LET stop_id == StopOrder[i]
             skip == stop_id \notin DOMAIN stops_map \/ IsNone(dist[stop_id])
         IN  IF skip THEN NearestFrom(stops_map, dist, i + 1, best)
             ELSE IF IsNone(best) \/ Val(dist[stop_id]) < Val(best).d
                  THEN NearestFrom(stops_map, dist, i + 1,
                                   Some([stop |-> stop_id, d |-> Val(dist[stop_id])]))
                  ELSE NearestFrom(stops_map, dist, i + 1, best)

find_nearest_stop_for_shape(stops_map, dist) == NearestFrom(stops_map, dist, 1, None)

\* main, line 149: total_seconds = int(time_minutes * 60)
TotalSeconds(minutes) == minutes * 60

\* main, lines 156-158, in ticks: max_walk, walk_time and remaining.
MaxWalk(minutes) == (TotalSeconds(minutes) * TPS * 7) \div 10

WalkTime(dist_m, minutes) ==
    Min((dist_m * TPS * WALK_SPEED_DEN) \div WALK_SPEED_NUM, MaxWalk(minutes))

RemainingWithoutBoarding(dist_m, minutes) ==
    TotalSeconds(minutes) * TPS - WalkTime(dist_m, minutes)

Remaining(dist_m, minutes) ==
    TotalSeconds(minutes) * TPS - WalkTime(dist_m, minutes) - BOARD_TIME * TPS

\* traverse_from_stop, lines 100-104: the locals before the loop.
TravInit(start_stop) ==
    [cur |-> start_stop, acc |-> 0, visited |-> {}, results |-> <<>>, live |-> TRUE]

TravGuardNoCycleGuard(st) == st.cur # ""

EmitsAtZero(time_left_at_stop) == time_left_at_stop >= 0

\* Line 113: a stop is recorded only with time left.
Emits(time_left_at_stop) == time_left_at_stop > 0

\* Line 125: the traversal stops once the ride has used up the time.
OverBudget(acc, total_seconds) == acc > total_seconds

\* The loop condition of line 105.
TravGuard(st) == st.cur # "" /\ st.cur \notin st.visited

\* One iteration of the loop of traverse_from_stop (lines 106-127); live is FALSE
\* once a break or the loop condition has ended the loop.
TravStep(stops_map, total_seconds, st) ==
    IF ~TravGuard(st) THEN [st EXCEPT !.live = FALSE]
    ELSE LET seen == st.visited \cup {st.cur}
         IN  IF st.cur \notin DOMAIN stops_map
             THEN [st EXCEPT !.visited = seen, !.live = FALSE]
             ELSE LET entry == stops_map[st.cur]
                      time_left_at_stop == total_seconds - st.acc
                      res == IF Emits(time_left_at_stop)
                             THEN Append(st.results,
                                         [stop |-> st.cur, next |-> entry.next,
                                          time_left |-> time_left_at_stop])
                             ELSE st.results
                  IN  IF IsNone(entry.tt) /\ IsNone(entry.td)
                      THEN [st EXCEPT !.visited = seen, !.results = res, !.live = FALSE]
                      ELSE LET dt == IF IsNone(entry.tt)
                                     THEN (Val(entry.td) * TPS) \div BUS_SPEED_FALLBACK
                                     ELSE Val(entry.tt) * TPS
                               acc == st.acc + dt
                           IN  IF OverBudget(acc, total_seconds)
                               THEN [st EXCEPT !.visited = seen, !.results = res,
                                               !.acc = acc, !.live = FALSE]
                               ELSE [st EXCEPT !.visited = seen, !.results = res,
                                               !.acc = acc, !.cur = entry.next]

\* traverse_from_stop as a function: the results it returns.
RECURSIVE TravRun(_, _, _)
TravRun(stops_map, total_seconds, st) ==
    IF st.live THEN TravRun(stops_map, total_seconds, TravStep(stops_map, total_seconds, st))
    ELSE st.results

traverse_from_stop(stops_map, start_stop, total_seconds) ==
    TravRun(stops_map, total_seconds, TravInit(start_stop))

OutRowRadiusTruncated(stops_map, r) ==
    [stop_id |-> r.stop, next_stop_id |-> r.next,
     travel_time_to_next |-> stops_map[r.stop].tt,
     area_radius_m |-> (r.time_left * WALK_SPEED_NUM) \div (TPS * WALK_SPEED_DEN)]

\* main, lines 163-169: one output row per result; area_radius_m is
\* int(round(time_left * WALK_SPEED)).
OutRow(stops_map, r) ==
    [stop_id |-> r.stop, next_stop_id |-> r.next,
     travel_time_to_next |-> stops_map[r.stop].tt,
     area_radius_m |-> RoundHalfEven(r.time_left * WALK_SPEED_NUM, TPS * WALK_SPEED_DEN)]

OutRows(stops_map, results) == [i \in 1..Len(results) |-> OutRow(stops_map, results[i])]

\* main as a function: the results of the group's traversal (none when the
\* group has no stop with coordinates or no time remains).
BusResults(stops_map, dist, minutes) ==
    LET nearest == find_nearest_stop_for_shape(stops_map, dist)
    IN  IF IsNone(nearest) THEN <<>>
        ELSE IF Remaining(Val(nearest).d, minutes) <= 0 THEN <<>>
        ELSE traverse_from_stop(stops_map, Val(nearest).stop,
                                Remaining(Val(nearest).d, minutes))

Idle == [cur |-> "", acc |-> 0, visited |-> {}, results |-> <<>>, live |-> FALSE]

BusIdle ==
    /\ shape_map = <<>>
    /\ stop_dist = <<>>
    /\ time_minutes = 0
    /\ bus_pc = "idle"
    /\ remaining = 0
    /\ trav = Idle
    /\ out_rows = <<>>

BusInputs ==
    /\ shape_map \in AdjMaps
    /\ stop_dist \in StopDists
    /\ time_minutes \in BusMinutes
    /\ bus_pc = "start"
    /\ remaining = 0
    /\ trav = Idle
    /\ out_rows = <<>>

\* Adjacency tables whose travel times have a sign: load_adjacency (line 66)
\* takes int(tt) as it is written, and build_adjacency writes a negative one
\* for a pair of times more than a day apart.
SignedEntries ==
    {[next |-> n, tt |-> Some(t), td |-> None] : n \in Stops \cup {""}, t \in {-5, 10, 30}}

SignedAdjMaps == UNION {[D -> SignedEntries] : D \in SUBSET Stops}

BusInputsSigned ==
    /\ shape_map \in SignedAdjMaps
    /\ stop_dist \in StopDists
    /\ time_minutes \in BusMinutes
    /\ bus_pc = "start"
    /\ remaining = 0
    /\ trav = Idle
    /\ out_rows = <<>>

\* main up to the call of traverse_from_stop (lines 149-162) for the group.
BusMain ==
    /\ bus_pc = "start"
    /\ LET nearest == find_nearest_stop_for_shape(shape_map, stop_dist)
       IN  IF IsNone(nearest)
           THEN /\ bus_pc' = "done"
                /\ UNCHANGED <<remaining, trav>>
           ELSE LET rem == Remaining(Val(nearest).d, time_minutes)
                IN  /\ remaining' = rem
                    /\ IF rem <= 0
                       THEN bus_pc' = "done" /\ UNCHANGED trav
                       ELSE bus_pc' = "loop" /\ trav' = TravInit(Val(nearest).stop)
    /\ UNCHANGED <<shape_map, stop_dist, time_minutes, out_rows, transit, grp, geom, buildVars, apiVars>>

\* One iteration of traverse_from_stop's loop, or its end.
TraverseStep ==
    /\ bus_pc = "loop"
    /\ trav.live
    /\ trav' = TravStep(shape_map, remaining, trav)
    /\ UNCHANGED <<shape_map, stop_dist, time_minutes, bus_pc, remaining, out_rows, transit, grp, geom, buildVars, apiVars>>

\* traverse_from_stop returns; main appends the rows of the group (163-169).
BusRows ==
    /\ bus_pc = "loop"
    /\ ~trav.live
    /\ out_rows' = OutRows(shape_map, trav.results)
    /\ bus_pc' = "done"
    /\ UNCHANGED <<shape_map, stop_dist, time_minutes, remaining, trav, transit, grp, geom, buildVars, apiVars>>

NextBus == BusMain \/ TraverseStep \/ BusRows

----------------------------------------------------------------------------
(* app.py: generate_transit_isochrone                                      *)

WALK_SPEED == 80

SUBTE_SPEED == 500

\* Ticks per minute of app.py's clock: 1 m walked is 25 ticks, 1 m ridden is 4.
TPM == 25 * WALK_SPEED

\* abs(cos(radians(lat))) as the fraction <<numerator, denominator>>, for the
\* latitudes whose cosine is rational: 0 and 60 degrees (lat is in units of
\* 1/111000 degree).
AbsCos(lat) ==
    CASE lat = 0 -> <<1, 1>>
      [] Abs(lat) = 60 * 111000 -> <<1, 2>>

\* sqrt, for the perfect squares the model's coordinates give.
RECURSIVE SqrtFrom(_, _, _)
SqrtFrom(n, lo, hi) ==
    IF lo >= hi THEN lo
    ELSE LET mid == (lo + hi + 1) \div 2
         IN  IF mid * mid <= n THEN SqrtFrom(n, mid, hi) ELSE SqrtFrom(n, lo, mid - 1)

Sqrt(n) == SqrtFrom(n, 0, Min(n, 46340))

\* The distance of lines 504-506 and 551-553 (metres): from the point
\* (ref_lat, ref_lon), whose latitude scales the longitudes, to (lat, lon).
PlanarDistance(ref_lat, ref_lon, lat, lon) ==
    LET lat_diff == lat - ref_lat
        lon_diff == ((lon - ref_lon) * AbsCos(ref_lat)[1]) \div AbsCos(ref_lat)[2]
    IN  Sqrt(lat_diff * lat_diff + lon_diff * lon_diff)

\* get_transport_routes: the model's lines, in the dict's order.  Line 1 has
\* stops 2490 m and 2499 m down the track, line 2 has two stops, line 3 one.
RouteOrder == <<"linea_1", "linea_2", "linea_3">>

Stop(name, lon) == [name |-> name, lat |-> 0, lon |-> lon]

get_transport_routes ==
    [r \in {"linea_1", "linea_2", "linea_3"} |->
        CASE r = "linea_1" ->
                [name |-> "Linea 1",
                 stops |-> <<Stop("P0", 0), Stop("P1", 1000), Stop("P2", 2490),
                             Stop("P3", 2499)>>]
          [] r = "linea_2" ->
                [name |-> "Linea 2", stops |-> <<Stop("Q0", 1200), Stop("Q1", 3000)>>]
          [] r = "linea_3" ->
                [name |-> "Linea 3", stops |-> <<Stop("R0", -400)>>]]

\* The origins (on the equator) and the budgets of the model's requests.
OriginLons == {-400, 0, 100, 1000, 1100, 2488, 2499, 2799, 5000}

TransitMinutes == {5, 6, 30}

\* Lines 499-511: the index (from 1) of the first stop at the least distance.
RECURSIVE ClosestFrom(_, _, _, _, _)
ClosestFrom(stops, center_lat, center_lon, i, best) ==
    IF i > Len(stops) THEN best
    ELSE LET distance == PlanarDistance(center_lat, center_lon, stops[i].lat, stops[i].lon)
         IN  IF best.index = 0 \/ distance < best.distance
             THEN ClosestFrom(stops, center_lat, center_lon, i + 1,
                              [index |-> i, distance |-> distance])
             ELSE ClosestFrom(stops, center_lat, center_lon, i + 1, best)

ClosestStop(stops, center_lat, center_lon) ==
    ClosestFrom(stops, center_lat, center_lon, 1, [index |-> 0, distance |-> 0])

\* The sampled angles: the model samples every circle at the four angles whose
\* cosine and sine are integers, as <<cos, sin>>.
Dirs == << <<1, 0>>, <<0, 1>>, <<-1, 0>>, <<0, -1>> >>

\* Lines 490-491, 581-582, 629-630, 808-809: the point of the circle at one angle.
CirclePoint(center_lon, center_lat, radius, dir) ==
    [lon |-> center_lon + ((radius * AbsCos(center_lat)[2]) \div AbsCos(center_lat)[1]) * dir[2],
     lat |-> center_lat + radius * dir[1]]

\* create_circle_geometry / create_circle_points without the closing point.
CirclePoints(center_lon, center_lat, radius) ==
    [i \in 1..Len(Dirs) |-> CirclePoint(center_lon, center_lat, radius, Dirs[i])]

\* create_circle_points (lines 803-811)
create_circle_points(center, radius_meters) ==
    CirclePoints(center[1], center[2], radius_meters)

CircleLeftOpen(center, radius_meters) == CirclePoints(center[1], center[2], radius_meters)

\* create_circle_geometry (lines 624-633): the points, then points[0] again.
create_circle_geometry(center, radius_meters) ==
    LET points == CirclePoints(center[1], center[2], radius_meters)
    IN  Append(points, points[1])

FeatureWithoutDebug(points, mode, minutes, debug_info) ==
    [type |-> "Feature",
     properties |-> [mode |-> mode, minutes |-> minutes, demo |-> TRUE,
                     debug_info |-> None],
     geometry |-> [type |-> "Polygon", coordinates |-> <<points>>]]

\* create_geojson_feature (lines 867-889); debug_info is None or <<debug_info>>.
create_geojson_feature(points, mode, minutes, debug_info) ==
    [type |-> "Feature",
     properties |-> [mode |-> mode, minutes |-> minutes, demo |-> TRUE,
                     debug_info |-> debug_info],
     geometry |-> [type |-> "Polygon", coordinates |-> <<points>>]]

\* Lines 467-468: MAX_WALK_TO_STATION = minutes * 0.70 (ticks) and
\* MAX_WALK_DISTANCE = MAX_WALK_TO_STATION * WALK_SPEED (metres).
MAX_WALK_TO_STATION(minutes) == (minutes * 7 * TPM) \div 10

MaxWalkDistanceWholeBudget(minutes) == minutes * WALK_SPEED

MAX_WALK_DISTANCE(minutes) == (MAX_WALK_TO_STATION(minutes) * WALK_SPEED) \div TPM

NeverTooFar(walk_time_to_closest, max_walk) == FALSE

TooFarInverted(walk_time_to_closest, max_walk) == walk_time_to_closest < max_walk

\* Line 516: the closest stop is out of walking range.
TooFar(walk_time_to_closest, max_walk) == walk_time_to_closest > max_walk

WithinBudgetInclusive(total_time, minutes) == total_time <= minutes * TPM

\* Line 561: there is time left on arriving at the stop.
WithinBudget(total_time, minutes) == total_time < minutes * TPM

\* Lines 463-492: the locals of generate_transit_isochrone once the origin
\* circle is in all_reachable_points.  Times are in ticks, walk distances in
\* metres, the points of all_reachable_points in 1/25 m (a radius of t ticks
\* of walking is t/25 m).
TransitInit(lat, lon, minutes) ==
    [pc |-> "route", center_lat |-> lat, center_lon |-> lon, minutes |-> minutes,
     debug_info |-> [max_walk_time |-> MAX_WALK_TO_STATION(minutes),
                     max_walk_distance |-> MAX_WALK_DISTANCE(minutes),
                     total_time |-> minutes,
                     routes_used |-> <<>>],
     all_reachable_points |->
         CirclePoints(lon * 25, lat * 25, MAX_WALK_DISTANCE(minutes) * 25),
     route_i |-> 1, closest_stop_index |-> 0, walk_time_to_closest |-> 0,
     route_debug |-> None, directions |-> <<>>, direction |-> 0,
     accumulated_distance |-> 0, prev_stop |-> 0, idx |-> 0, feature |-> None]

\* Lines 495-539: the next line of the loop: its closest stop, the two tests
\* that skip the line, route_debug and the directions to ride.
RouteBeginStep(st) ==
    LET route == get_transport_routes[RouteOrder[st.route_i]]
        stops == route.stops
        closest == ClosestStop(stops, st.center_lat, st.center_lon)
        walk_time_to_closest == (closest.distance * TPM) \div WALK_SPEED
        time_after_boarding == st.minutes * TPM - walk_time_to_closest
        directions == (IF closest.index > 1 THEN <<-1>> ELSE <<>>)
                      \o (IF closest.index < Len(stops) THEN <<1>> ELSE <<>>)
    IN  IF TooFar(walk_time_to_closest, st.debug_info.max_walk_time)
           \/ time_after_boarding <= 0
        THEN [st EXCEPT !.route_i = st.route_i + 1]
        ELSE [st EXCEPT !.pc = "dir",
                        !.closest_stop_index = closest.index,
                        !.walk_time_to_closest = walk_time_to_closest,
                        !.route_debug =
                            Some([name |-> route.name,
                                  closest_stop |-> stops[closest.index].name,
                                  walk_time_to_stop |->
                                      RoundHalfEven(walk_time_to_closest * 10, TPM),
                                  stops_reached |-> <<>>]),
                        !.directions = directions]

DirBeginKeepsDistance(st) ==
    [st EXCEPT !.pc = "ride", !.direction = Head(st.directions),
               !.directions = Tail(st.directions),
               !.prev_stop = st.closest_stop_index,
               !.idx = st.closest_stop_index]

\* Lines 541-544: the next direction starts at the closest stop.
DirBeginStep(st) ==
    [st EXCEPT !.pc = "ride", !.direction = Head(st.directions),
               !.directions = Tail(st.directions),
               !.accumulated_distance = 0,
               !.prev_stop = st.closest_stop_index,
               !.idx = st.closest_stop_index]

\* Lines 546-588: one iteration of the while loop, or its end.  time_spent and
\* time_remaining are round(x, 1) in tenths of a minute, walk_radius_meters
\* is round(walk_radius, 0) in metres.
RideStep(st) ==
    LET stops == get_transport_routes[RouteOrder[st.route_i]].stops
        idx == st.idx + st.direction
    IN  IF ~(1 <= idx /\ idx <= Len(stops)) THEN [st EXCEPT !.pc = "dir"]
        ELSE LET current_stop == stops[idx]
                 prev_stop == stops[st.prev_stop]
                 segment_distance == PlanarDistance(prev_stop.lat, prev_stop.lon,
                                                    current_stop.lat, current_stop.lon)
                 accumulated_distance == st.accumulated_distance + segment_distance
                 transit_time == (accumulated_distance * TPM) \div SUBTE_SPEED
                 total_time == st.walk_time_to_closest + transit_time
                 time_remaining == st.minutes * TPM - total_time
                 walk_radius == (time_remaining * WALK_SPEED * 25) \div TPM
                 stop_debug == [name |-> current_stop.name,
                                lat |-> current_stop.lat, lon |-> current_stop.lon,
                                time_spent |-> RoundHalfEven(total_time * 10, TPM),
                                time_remaining |-> RoundHalfEven(time_remaining * 10, TPM),
                                walk_radius_meters |-> RoundHalfEven(walk_radius, 25)]
             IN  IF WithinBudget(total_time, st.minutes)
                 THEN [st EXCEPT !.idx = idx, !.prev_stop = idx,
                                 !.accumulated_distance = accumulated_distance,
                                 !.route_debug =
                                     Some([Val(st.route_debug) EXCEPT !.stops_reached =
                                              Append(@, stop_debug)]),
                                 !.all_reachable_points =
                                     @ \o CirclePoints(current_stop.lon * 25,
                                                       current_stop.lat * 25, walk_radius)]
                 ELSE [st EXCEPT !.idx = idx,
                                 !.accumulated_distance = accumulated_distance,
                                 !.pc = "dir"]

RouteEndDropsTrace(st) == [st EXCEPT !.pc = "route", !.route_i = st.route_i + 1]

\* Line 590: the line's route_debug joins routes_used.
RouteEndStep(st) ==
    [st EXCEPT !.pc = "route", !.route_i = st.route_i + 1,
               !.debug_info.routes_used = Append(@, Val(st.route_debug))]

\* Lines 617-621: the returned feature is the origin circle with debug_info.
\* (Lines 603-607 sort and close all_reachable_points, which nothing reads
\* afterwards: the list keeps the order of its appends here.)
TransitFinishStep(st) ==
    [st EXCEPT !.pc = "done",
               !.feature =
                   Some(create_geojson_feature(
                            create_circle_geometry(<<st.center_lon, st.center_lat>>,
                                                   st.debug_info.max_walk_distance),
                            "public_transport", st.minutes, Some(st.debug_info)))]

\* generate_transit_isochrone as a function: the locals when it returns.
TransitStep(st) ==
    CASE st.pc = "route" /\ st.route_i <= Len(RouteOrder) -> RouteBeginStep(st)
      [] st.pc = "route" /\ st.route_i > Len(RouteOrder) -> TransitFinishStep(st)
      [] st.pc = "dir" /\ st.directions # <<>> -> DirBeginStep(st)
      [] st.pc = "dir" /\ st.directions = <<>> -> RouteEndStep(st)
      [] st.pc = "ride" -> RideStep(st)

RECURSIVE TransitRun(_)
TransitRun(st) == IF st.pc = "done" THEN st ELSE TransitRun(TransitStep(st))

generate_transit_isochrone(lat, lon, minutes) == TransitRun(TransitInit(lat, lon, minutes))

TransitIdle == [pc |-> "idle"]

TransitInputs == \E lon \in OriginLons, minutes \in TransitMinutes :
                     transit = TransitInit(0, lon, minutes)

RouteBegin ==
    /\ transit.pc = "route" /\ transit.route_i <= Len(RouteOrder)
    /\ transit' = RouteBeginStep(transit)
    /\ UNCHANGED <<busVars, grp, geom, buildVars, apiVars>>

DirBegin ==
    /\ transit.pc = "dir" /\ transit.directions # <<>>
    /\ transit' = DirBeginStep(transit)
    /\ UNCHANGED <<busVars, grp, geom, buildVars, apiVars>>

Ride ==
    /\ transit.pc = "ride"
    /\ transit' = RideStep(transit)
    /\ UNCHANGED <<busVars, grp, geom, buildVars, apiVars>>

RouteEnd ==
    /\ transit.pc = "dir" /\ transit.directions = <<>>
    /\ transit' = RouteEndStep(transit)
    /\ UNCHANGED <<busVars, grp, geom, buildVars, apiVars>>

TransitFinish ==
    /\ transit.pc = "route" /\ transit.route_i > Len(RouteOrder)
    /\ transit' = TransitFinishStep(transit)
    /\ UNCHANGED <<busVars, grp, geom, buildVars, apiVars>>

NextTransit == RouteBegin \/ DirBegin \/ Ride \/ RouteEnd \/ TransitFinish

----------------------------------------------------------------------------
(* app.py: group_connected_circles                                         *)

CONNECTION_TOLERANCE == 200

\* Disks of the model, centre <<lon, lat>> in units of 1/111000 degree and
\* radius in metres.  Bajo and Alto lie 40 degrees of longitude and 60 degrees
\* of latitude apart; the others lie on the equator: Este and Medio exactly
\* radius + radius apart, Medio and Lejos exactly radius + radius + 200 m
\* apart, Punto (radius 0) between Este and Medio.
Deg(d) == d * 111000

Disk(name, lon, lat, radius) == [name |-> name, center |-> <<lon, lat>>, radius |-> radius]

DiskPool ==
    { Disk("Bajo", Deg(0), Deg(0), 3700000),
      Disk("Alto", Deg(40), Deg(60), 3799800),
      Disk("Este", Deg(10), Deg(0), 200000),
      Disk("Punto", Deg(12), Deg(0), 0),
      Disk("Medio", Deg(14), Deg(0), 244000),
      Disk("Lejos", Deg(18), Deg(0), 199800) }

\* The most disks in one call of the model.
MaxDisks == 3

\* The lists of distinct disks of the pool, up to MaxDisks long.
DiskLists ==
    UNION {{c \in [1..n -> DiskPool] : \A i, j \in 1..n : i # j => c[i] # c[j]}
           : n \in 0..MaxDisks}

\* A common factor of 200 is divided out of the three lengths before they are
\* squared, so that the squares fit TLC's 32-bit integers.
LenScale(a, b, c) == IF a % 200 = 0 /\ b % 200 = 0 /\ c % 200 = 0 THEN 200 ELSE 1

ConnectedWithoutTolerance(c1, c2) ==
    LET k == LenScale(c1.center[1] - c2.center[1], c1.center[2] - c2.center[2],
                      c1.radius + c2.radius)
        dx == (((c1.center[1] - c2.center[1]) \div k) * AbsCos(c1.center[2])[1])
                  \div AbsCos(c1.center[2])[2]
        dy == (c1.center[2] - c2.center[2]) \div k
        reach == (c1.radius + c2.radius) \div k
    IN  reach > 0 /\ dx * dx + dy * dy < reach * reach

\* Lines 756-761: distance < radius + radius + CONNECTION_TOLERANCE, with dx
\* scaled by the cosine of c1's latitude; compared through the squares.
Connected(c1, c2) ==
    LET k == LenScale(c1.center[1] - c2.center[1], c1.center[2] - c2.center[2],
                      c1.radius + c2.radius + CONNECTION_TOLERANCE)
        dx == (((c1.center[1] - c2.center[1]) \div k) * AbsCos(c1.center[2])[1])
                  \div AbsCos(c1.center[2])[2]
        dy == (c1.center[2] - c2.center[2]) \div k
        reach == (c1.radius + c2.radius + CONNECTION_TOLERANCE) \div k
    IN  reach > 0 /\ dx * dx + dy * dy < reach * reach

\* find (lines 740-743): the root of x.
RECURSIVE find(_, _)
find(parent, x) == IF parent[x] # x THEN find(parent, parent[x]) ELSE x

\* find's path compression: every element on the way from x takes the root
\* as its parent.
RECURSIVE Compress(_, _)
Compress(parent, x) ==
    IF parent[x] # x
    THEN [Compress(parent, parent[x]) EXCEPT ![x] = find(parent, x)]
    ELSE parent

\* union (lines 745-748)
union(parent, x, y) ==
    LET p1 == Compress(parent, x)
        px == find(parent, x)
        p2 == Compress(p1, y)
        py == find(p1, y)
    IN  IF px # py THEN [p2 EXCEPT ![px] = py] ELSE p2

\* Lines 737-738: the locals before the pair loop; elements are numbered from 1.
GroupInit(circles) ==
    [pc |-> IF circles = <<>> THEN "done" ELSE "pairs",
     circles |-> circles,
     parent |-> [x \in 1..Len(circles) |-> x],
     i |-> 1, j |-> 2, groups |-> <<>>]

\* Lines 751-762: the test of the pair (i, j), or the move to the next i.
PairStep(st) ==
    LET n == Len(st.circles)
    IN  IF st.i > n THEN [st EXCEPT !.pc = "collect"]
        ELSE IF st.j > n THEN [st EXCEPT !.i = st.i + 1, !.j = st.i + 2]
        ELSE IF Connected(st.circles[st.i], st.circles[st.j])
             THEN [st EXCEPT !.parent = union(st.parent, st.i, st.j), !.j = st.j + 1]
             ELSE [st EXCEPT !.j = st.j + 1]

\* Lines 765-772: the groups, in the order their roots are first met.
RECURSIVE CollectFrom(_, _, _, _, _)
CollectFrom(circles, parent, x, roots, groups) ==
    IF x > Len(circles) THEN groups
    ELSE LET root == find(parent, x)
             known == \E k \in 1..Len(roots) : roots[k] = root
             at == IF known THEN CHOOSE k \in 1..Len(roots) : roots[k] = root
                   ELSE Len(roots) + 1
         IN  IF known
             THEN CollectFrom(circles, Compress(parent, x), x + 1, roots,
                              [groups EXCEPT ![at] = Append(@, circles[x])])
             ELSE CollectFrom(circles, Compress(parent, x), x + 1, Append(roots, root),
                              Append(groups, <<circles[x]>>))

CollectStep(st) ==
    [st EXCEPT !.pc = "done",
               !.groups = CollectFrom(st.circles, st.parent, 1, <<>>, <<>>)]

GroupStep(st) == IF st.pc = "pairs" THEN PairStep(st) ELSE CollectStep(st)

RECURSIVE GroupRun(_)
GroupRun(st) == IF st.pc = "done" THEN st.groups ELSE GroupRun(GroupStep(st))

\* group_connected_circles (lines 728-772) as a function
group_connected_circles(circles) == GroupRun(GroupInit(circles))

GroupIdle == [pc |-> "idle"]

GroupInputs == \E circles \in DiskLists : grp = GroupInit(circles)

TestPair ==
    /\ grp.pc = "pairs"
    /\ grp' = PairStep(grp)
    /\ UNCHANGED <<busVars, transit, geom, buildVars, apiVars>>

CollectGroups ==
    /\ grp.pc = "collect"
    /\ grp' = CollectStep(grp)
    /\ UNCHANGED <<busVars, transit, geom, buildVars, apiVars>>

NextGroup == TestPair \/ CollectGroups

----------------------------------------------------------------------------
(* app.py: the ring builders                                               *)
(* Circles are sampled at the four angles of Dirs; the hull of a group     *)
(* looks in the eight directions of HullDirs.  Means over n values are     *)
(* kept as sums, every vector from a mean being scaled by n.               *)

\* Disks on the equator, centre and radius in metres, as extract_stop_circles
\* (lines 636-661) lists them: the origin disk, disks of stops, and the same
\* station reached with nothing left on two lines.
RingPool ==
    { Disk("Zona inicial (trabajo)", 0, 0, 280),
      Disk("P0", 400, 0, 240),
      Disk("P1", 1000, 0, 240),
      Disk("Retiro C", 700, 0, 0),
      Disk("Retiro Mitre", 700, 0, 0) }

RingLists ==
    UNION {{c \in [1..n -> RingPool] : \A i, j \in 1..n : i # j => c[i] # c[j]}
           : n \in 0..MaxDisks}

RECURSIVE SumOver(_, _, _)
SumOver(seq, field, i) ==
    IF i > Len(seq) THEN 0
    ELSE (IF field = "lon" THEN seq[i].lon ELSE seq[i].lat) + SumOver(seq, field, i + 1)

\* atan2(v[2], v[1]) < atan2(w[2], w[1]), for vectors <<x, y>>: by the part
\* of (-pi, pi] the angle lies in, then by the cross product.
Sector(v) ==
    IF v[2] < 0 THEN 0
    ELSE IF v[2] = 0 /\ v[1] >= 0 THEN 1
    ELSE IF v[2] > 0 THEN 2
    ELSE 3

AngleLess(v, w) ==
    \/ Sector(v) < Sector(w)
    \/ /\ Sector(v) = Sector(w)
       /\ Sector(v) \in {0, 2}
       /\ v[1] * w[2] - v[2] * w[1] > 0

\* list.sort(key=angle_from_center): stable, ascending.  keys[i] is the
\* vector whose angle is the key of points[i]; SortedIndices is the order of
\* the first i points.
InsertByAngle(sorted, i, keys) ==
    LET later == {k \in 1..Len(sorted) : AngleLess(keys[i], keys[sorted[k]])}
        at == IF later = {} THEN Len(sorted) + 1
              ELSE CHOOSE k \in later : \A l \in later : k <= l
    IN  SubSeq(sorted, 1, at - 1) \o <<i>> \o SubSeq(sorted, at, Len(sorted))

RECURSIVE SortedIndices(_, _)
SortedIndices(keys, i) ==
    IF i = 0 THEN <<>>
    ELSE InsertByAngle(SortedIndices(keys, i - 1), i, keys)

SortByAngle(points, keys) ==
    LET order == SortedIndices(keys, Len(points))
    IN  [k \in 1..Len(points) |-> points[order[k]]]

RECURSIVE Flatten(_)
Flatten(seqs) == IF seqs = <<>> THEN <<>> ELSE Head(seqs) \o Flatten(Tail(seqs))

\* Lines 683-697: for one angle, the circle whose point at that angle lies
\* farthest from the mean centre; the first of equal ones (strict >, from -1).
RECURSIVE BestPointFrom(_, _, _, _, _)
BestPointFrom(circles, dir, i, max_distance2, best_point) ==
    IF i > Len(circles) THEN best_point
    ELSE LET n == Len(circles)
             centers == [k \in 1..n |-> [lon |-> circles[k].center[1],
                                         lat |-> circles[k].center[2]]]
             sum_lon == SumOver(centers, "lon", 1)
             sum_lat == SumOver(centers, "lat", 1)
             point == CirclePoint(centers[i].lon, centers[i].lat, circles[i].radius, dir)
             dx == ((n * point.lon - sum_lon) * AbsCos(sum_lat \div n)[1])
                       \div AbsCos(sum_lat \div n)[2]
             dy == n * point.lat - sum_lat
             distance2 == dx * dx + dy * dy
         IN  IF distance2 > max_distance2
             THEN BestPointFrom(circles, dir, i + 1, distance2, Some(point))
             ELSE BestPointFrom(circles, dir, i + 1, max_distance2, best_point)

\* Lines 701-716: 0.4 * previous + 0.2 * point + 0.4 * next, kept five times
\* as large.
Smoothed(hull_points) ==
    LET n == Len(hull_points)
        prev(i) == hull_points[((i - 2) % n) + 1]
        next(i) == hull_points[(i % n) + 1]
    IN  [i \in 1..n |->
            [lon |-> 2 * prev(i).lon + hull_points[i].lon + 2 * next(i).lon,
             lat |-> 2 * prev(i).lat + hull_points[i].lat + 2 * next(i).lat]]

\* create_all_circles_geometry (lines 664-725)
create_all_circles_geometry(circles) ==
    IF circles = <<>> THEN <<>>
    ELSE LET best == [a \in 1..Len(Dirs) |-> BestPointFrom(circles, Dirs[a], 1, -1, None)]
             hull_points == Flatten(best)
             smoothed == Smoothed(hull_points)
         IN  IF smoothed # <<>> THEN Append(smoothed, smoothed[1]) ELSE smoothed

\* The directions the hull of a group looks in, every 45 degrees, as vectors
\* <<x, y>> of the (dx, dy) plane.
HullDirs == << <<1, 0>>, <<1, 1>>, <<0, 1>>, <<-1, 1>>,
               <<-1, 0>>, <<-1, -1>>, <<0, -1>>, <<1, -1>> >>

\* Lines 841-845: angle_diff < pi/6 between the vector v and the direction u,
\* through cos^2 > 3/4: along^2 > 3 * across^2.
WithinSixth(v, u) ==
    LET along == u[1] * v[1] + u[2] * v[2]
        across == u[1] * v[2] - u[2] * v[1]
    IN  along > 0 /\ along * along > 3 * across * across

\* Lines 838-849: for one direction, the farthest point within pi/6 of it and
\* farther than 0 from the mean point; None when there is none.
RECURSIVE FarthestFrom(_, _, _, _, _)
FarthestFrom(all_points, dir, i, max_dist2, farthest) ==
    IF i > Len(all_points) THEN farthest
    ELSE LET n == Len(all_points)
             sum_lon == SumOver(all_points, "lon", 1)
             sum_lat == SumOver(all_points, "lat", 1)
             dx == ((n * all_points[i].lon - sum_lon) * AbsCos(sum_lat \div n)[1])
                       \div AbsCos(sum_lat \div n)[2]
             dy == n * all_points[i].lat - sum_lat
             dist2 == dx * dx + dy * dy
         IN  IF WithinSixth(<<dx, dy>>, dir) /\ dist2 > max_dist2
             THEN FarthestFrom(all_points, dir, i + 1, dist2, Some(all_points[i]))
             ELSE FarthestFrom(all_points, dir, i + 1, max_dist2, farthest)

\* create_group_hull (lines 814-864)
create_group_hull(circles) ==
    LET all_points ==
            Flatten([k \in 1..Len(circles) |->
                        create_circle_points(circles[k].center, circles[k].radius)])
        n == Len(all_points)
        sum_lon == SumOver(all_points, "lon", 1)
        sum_lat == SumOver(all_points, "lat", 1)
        angle_from_center(point) == <<n * point.lon - sum_lon, n * point.lat - sum_lat>>
        hull_points ==
            Flatten([a \in 1..Len(HullDirs) |->
                        FarthestFrom(all_points, HullDirs[a], 1, 0, None)])
        keys == [k \in 1..Len(hull_points) |-> angle_from_center(hull_points[k])]
        sorted == SortByAngle(hull_points, keys)
    IN  IF n < 3 THEN all_points
        ELSE IF sorted # <<>> THEN Append(sorted, sorted[1]) ELSE sorted

\* create_grouped_geometry (lines 775-800)
create_grouped_geometry(groups, center_lat, center_lon) ==
    LET all_points ==
            Flatten([g \in 1..Len(groups) |->
                        IF Len(groups[g]) = 1
                        THEN create_circle_points(groups[g][1].center, groups[g][1].radius)
                        ELSE create_group_hull(groups[g])])
        angle_from_center(point) == <<point.lon - center_lon, point.lat - center_lat>>
        keys == [k \in 1..Len(all_points) |-> angle_from_center(all_points[k])]
        sorted == SortByAngle(all_points, keys)
    IN  IF Len(all_points) < 3 THEN all_points
        ELSE Append(sorted, sorted[1])

\* Lines 421-427: metres per minute of each mode, 83 for any other.
speeds(mode) ==
    CASE mode = "walking" -> 83
      [] mode = "bike" -> 250
      [] mode = "car" -> 420
      [] OTHER -> 83

\* generate_mock_isochrone (lines 412-447), sampled at the angles of Dirs:
\* there abs(cos(2 * angle)) is 1 and abs(cos(angle)) is 1 or 0.
generate_mock_isochrone(lat, lon, mode, minutes) ==
    LET radius == speeds(mode) * minutes
        r(dir) == CASE mode = "car" -> (radius * (8 + 3 * Abs(dir[1]))) \div 10
                    [] mode = "bike" -> (radius * (9 + 1)) \div 10
                    [] OTHER -> radius
        points == [i \in 1..Len(Dirs) |-> CirclePoint(lon, lat, r(Dirs[i]), Dirs[i])]
    IN  create_geojson_feature(Append(points, points[1]), mode, minutes, None)

GeomIdle == [pc |-> "idle"]

GeomInputs == \E circles \in RingLists : geom = [pc |-> "input", circles |-> circles]

\* What a call leaves: the function called and the ring it returned.
Returned(op, ring) == [pc |-> "returned", op |-> op, circles |-> geom.circles, ring |-> ring]

CallAllCircles ==
    /\ geom.pc = "input"
    /\ geom' = Returned("create_all_circles_geometry", create_all_circles_geometry(geom.circles))
    /\ UNCHANGED <<busVars, transit, grp, buildVars, apiVars>>

CallGroupHull ==
    /\ geom.pc = "input"
    /\ geom' = Returned("create_group_hull", create_group_hull(geom.circles))
    /\ UNCHANGED <<busVars, transit, grp, buildVars, apiVars>>

\* The groups of group_connected_circles, drawn around the first disk's centre
\* (around the point 0, 0 for no disks).
CallGrouped ==
    /\ geom.pc = "input"
    /\ LET center == IF geom.circles = <<>> THEN <<0, 0>> ELSE geom.circles[1].center
       IN  geom' = Returned("create_grouped_geometry",
                            create_grouped_geometry(group_connected_circles(geom.circles),
                                                    center[2], center[1]))
    /\ UNCHANGED <<busVars, transit, grp, buildVars, apiVars>>

CallCircle ==
    /\ geom.pc = "input"
    /\ \E i \in 1..Len(geom.circles) :
           geom' = Returned("create_circle_geometry",
                            create_circle_geometry(geom.circles[i].center,
                                                   geom.circles[i].radius))
    /\ UNCHANGED <<busVars, transit, grp, buildVars, apiVars>>

CallMock ==
    /\ geom.pc = "input"
    /\ \E lat \in {0, Deg(60)}, mode \in {"walking", "bike", "car", "bus"},
          minutes \in TransitMinutes :
           geom' = Returned("generate_mock_isochrone",
                            generate_mock_isochrone(lat, 0, mode, minutes)
                                .geometry.coordinates[1])
    /\ UNCHANGED <<busVars, transit, grp, buildVars, apiVars>>

NextGeom == CallAllCircles \/ CallGroupHull \/ CallGrouped \/ CallCircle \/ CallMock

----------------------------------------------------------------------------
(* scripts/build_adjacency_by_route.py                                     *)
(* A time text is the sequence of its parts between colons, a part being   *)
(* <<n>> when int() reads n and <<>> when int() fails; the empty text and  *)
(* NULL are <<>>.  Seconds and metres are integers; a median is the        *)
(* fraction <<numerator, denominator>>.                                    *)

Time(h, m, s) == << <<h>>, <<m>>, <<s>> >>

NoText == <<>>

\* "xx:00:00" and "08:00"
BadTime == << <<>>, <<0>>, <<0>> >>

ShortTime == << <<8>>, <<0>> >>

\* A row of the table st, as the SELECT of line 114 returns it.
Row(stop_id, arrival, departure, shape_dist) ==
    [stop_id |-> stop_id, arrival_time |-> arrival, departure_time |-> departure,
     shape_dist |-> shape_dist]

\* A trip: its rows in stop_sequence order, and what trips_map holds for it
\* (<<"", "">> when it is not in trips_map).
Trip(route_id, shape_id, rows) == [route_id |-> route_id, shape_id |-> shape_id, rows |-> rows]

TripPool ==
    { Trip("60", "s1", << Row("A", Time(8, 0, 0), Time(8, 0, 0), Some(0)),
                          Row("B", Time(8, 2, 0), Time(8, 2, 0), Some(800)),
                          Row("C", Time(8, 5, 0), Time(8, 5, 0), Some(2000)) >>),
      Trip("60", "s1", << Row("A", Time(9, 0, 0), Time(9, 0, 0), Some(0)),
                          Row("C", Time(9, 4, 0), Time(9, 4, 0), Some(2000)) >>),
      Trip("60", "s1", << Row("A", Time(10, 0, 0), Time(10, 0, 30), Some(0)),
                          Row("B", Time(10, 2, 1), NoText, Some(900)) >>),
      Trip("60", "s1", << Row("A", Time(23, 50, 0), Time(23, 50, 0), None),
                          Row("B", Time(0, 10, 0), Time(0, 10, 0), None),
                          Row("C", Time(25, 10, 0), Time(25, 10, 0), None) >>),
      Trip("60", "s1", << Row("A", Time(49, 0, 0), Time(49, 0, 0), Some(0)),
                          Row("B", Time(0, 30, 0), Time(0, 30, 0), Some(700)) >>),
      Trip("60", "s1", << Row("A", NoText, BadTime, Some(0)),
                          Row("B", ShortTime, NoText, Some(1000)),
                          Row("C", NoText, NoText, Some(400)) >>),
      Trip("60", "s1", << Row("A", Time(23, 59, 0), Time(0, 0, 0), Some(0)),
                          Row("B", Time(0, 0, 0), Time(0, 3, 0), Some(900)) >>),
      Trip("60", "s2", << Row("A", Time(7, 0, 0), Time(7, 0, 0), Some(0)),
                          Row("C", Time(7, 6, 0), Time(7, 6, 0), Some(2400)) >>),
      Trip("", "", << Row("B", Time(7, 0, 0), Time(7, 0, 0), Some(0)) >>),
      Trip("60", "s1", << Row("A", NoText, NoText, Some(0)),
                          Row("B", NoText, NoText, Some(1003)),
                          Row("C", NoText, NoText, Some(1405)) >>) }

\* The most trips in the table st.
MaxTrips == 3

\* The tables of the model: the trips in the order of line 105.
TripLists == UNION {[1..n -> TripPool] : n \in 0..MaxTrips}

\* parse_time_to_seconds (lines 77-88): None or <<seconds>>.
parse_time_to_seconds(t) ==
    IF t = <<>> THEN None
    ELSE IF Len(t) # 3 THEN None
    ELSE IF \E k \in 1..3 : t[k] = <<>> THEN None
    ELSE Some(Val(t[1]) * 3600 + Val(t[2]) * 60 + Val(t[3]))

\* Python's "a or b" on None-or-number values: b when a is None or 0.
Or(a, b) == IF IsNone(a) \/ Val(a) = 0 THEN b ELSE a

\* sorted(lst)
RECURSIVE sorted(_)
sorted(lst) ==
    IF lst = <<>> THEN <<>>
    ELSE LET rest == sorted(Tail(lst))
             smaller == {k \in 1..Len(rest) : rest[k] < Head(lst)}
         IN  SubSeq(rest, 1, Cardinality(smaller)) \o <<Head(lst)>>
                 \o SubSeq(rest, Cardinality(smaller) + 1, Len(rest))

MedianUpperMiddle(lst) ==
    IF lst = <<>> THEN None
    ELSE Some(<<sorted(lst)[Len(lst) \div 2 + 1], 1>>)

\* median (lines 91-99): None, or the fraction <<numerator, denominator>>.
median(lst) ==
    IF lst = <<>> THEN None
    ELSE LET s == sorted(lst)
             n == Len(s)
             mid == n \div 2
         IN  IF n % 2 = 1 THEN Some(<<s[mid + 1], 1>>)
             ELSE Some(<<s[mid] + s[mid + 1], 2>>)

fallback_speed == 4

\* A Counter, and a dict in insertion order, are sequences of records in the
\* order their keys were first met.
IndexOf(seq, key) == CHOOSE k \in 1..Len(seq) : seq[k].key = key

Has(seq, key) == \E k \in 1..Len(seq) : seq[k].key = key

\* counter[next_stop_id] += 1
Increment(counter, next_stop_id) ==
    IF Has(counter, next_stop_id)
    THEN [counter EXCEPT ![IndexOf(counter, next_stop_id)].count = @ + 1]
    ELSE Append(counter, [key |-> next_stop_id, count |-> 1])

ChooseLeastCommon(counter) ==
    IF counter = <<>> THEN ""
    ELSE counter[CHOOSE k \in 1..Len(counter) :
                    \A l \in 1..Len(counter) :
                        \/ counter[k].count < counter[l].count
                        \/ counter[k].count = counter[l].count /\ k <= l].key

\* choose_most_common (lines 70-74): most_common(1) gives the largest count,
\* the first met among equal ones.
choose_most_common(counter) ==
    IF counter = <<>> THEN ""
    ELSE counter[CHOOSE k \in 1..Len(counter) :
                    \A l \in 1..Len(counter) :
                        \/ counter[k].count > counter[l].count
                        \/ counter[k].count = counter[l].count /\ k <= l].key

\* travel_times and travel_dists: defaultdict(list), as functions.
NoSamples == [x \in {} |-> <<>>]

AppendTo(samples, key, v) ==
    IF key \in DOMAIN samples THEN [samples EXCEPT ![key] = Append(@, v)]
    ELSE [x \in DOMAIN samples \cup {key} |-> IF x = key THEN <<v>> ELSE samples[x]]

Get(samples, key) == IF key \in DOMAIN samples THEN samples[key] ELSE <<>>

\* Lines 130-136: the travel time of one pair of rows, None when a time is
\* missing.
PairTime(row, next_row) ==
    LET dep_sec == Or(parse_time_to_seconds(row.departure_time),
                      parse_time_to_seconds(row.arrival_time))
        arr_sec == Or(parse_time_to_seconds(next_row.arrival_time),
                      parse_time_to_seconds(next_row.departure_time))
        dt == Val(arr_sec) - Val(dep_sec)
    IN  IF IsNone(dep_sec) \/ IsNone(arr_sec) THEN None
        ELSE IF dt < 0 THEN Some(dt + 24 * 3600)
        ELSE Some(dt)

\* Lines 138-145: the distance of one pair of rows, None when a distance is
\* missing or the difference is negative.
PairDist(row, next_row) ==
    IF IsNone(row.shape_dist) \/ IsNone(next_row.shape_dist) THEN None
    ELSE IF Val(next_row.shape_dist) - Val(row.shape_dist) < 0 THEN None
    ELSE Some(Val(next_row.shape_dist) - Val(row.shape_dist))

\* Lines 103-111: the locals before the loop over the trips.
BuildInit(trips) ==
    [pc |-> "trip", trips |-> trips, tid |-> 1, i |-> 1,
     next_counts |-> <<>>, travel_times |-> NoSamples, travel_dists |-> NoSamples,
     adjacency |-> <<>>]

\* Lines 113-118: the next trip, or the end of the loop.
TripStep(st) ==
    IF st.tid > Len(st.trips) THEN [st EXCEPT !.pc = "final", !.i = 1]
    ELSE IF st.trips[st.tid].rows = <<>> THEN [st EXCEPT !.tid = st.tid + 1]
    ELSE [st EXCEPT !.pc = "rows", !.i = 1]

\* Lines 119-150: one row of the trip with the row after it.
RowStep(st) ==
    LET trip == st.trips[st.tid]
        rows == trip.rows
        row == rows[st.i]
        next_row == rows[st.i + 1]
        key == <<trip.route_id, trip.shape_id, row.stop_id>>
        counts == IF Has(st.next_counts, key)
                  THEN [st.next_counts EXCEPT ![IndexOf(st.next_counts, key)].counter =
                                                 Increment(@, next_row.stop_id)]
                  ELSE Append(st.next_counts,
                              [key |-> key, counter |-> Increment(<<>>, next_row.stop_id)])
        dt == PairTime(row, next_row)
        dist == PairDist(row, next_row)
        moved == IF st.i + 1 > Len(rows)
                 THEN [st EXCEPT !.pc = "trip", !.tid = st.tid + 1, !.i = 1]
                 ELSE [st EXCEPT !.i = st.i + 1]
    IN  IF st.i + 1 > Len(rows) THEN moved
        ELSE [moved EXCEPT
                 !.next_counts = counts,
                 !.travel_times = IF IsNone(dt) THEN @
                                  ELSE AppendTo(@, <<key, next_row.stop_id>>, Val(dt)),
                 !.travel_dists = IF IsNone(dist) THEN @
                                  ELSE AppendTo(@, <<key, next_row.stop_id>>, Val(dist))]

FallbackTimeTruncated(travel_dist) ==
    travel_dist[1] \div (travel_dist[2] * fallback_speed)

\* Lines 161-168: int(round(travel_dist / fallback_speed)), for the median
\* distance <<numerator, denominator>>.
FallbackTime(travel_dist) ==
    RoundHalfEven(travel_dist[1], travel_dist[2] * fallback_speed)

\* Lines 154-172: the entry of the i-th key of next_counts.  travel_time is
\* int(round(...)) of the median, or of the median distance / fallback_speed.
FinalStep(st) ==
    IF st.i > Len(st.next_counts) THEN [st EXCEPT !.pc = "done"]
    ELSE LET key == st.next_counts[st.i].key
             most_next == choose_most_common(st.next_counts[st.i].counter)
             tlist == Get(st.travel_times, <<key, most_next>>)
             dlist == Get(st.travel_dists, <<key, most_next>>)
             travel_dist == median(dlist)
             travel_time ==
                 IF ~IsNone(median(tlist))
                 THEN Some(RoundHalfEven(Val(median(tlist))[1], Val(median(tlist))[2]))
                 ELSE IF ~IsNone(travel_dist)
                 THEN Some(FallbackTime(Val(travel_dist)))
                 ELSE None
             value == [next_stop_id |-> most_next, travel_time |-> travel_time,
                       travel_dist |-> travel_dist]
         IN  [st EXCEPT
                 !.i = st.i + 1,
                 !.adjacency = IF Has(@, key)
                               THEN [@ EXCEPT ![IndexOf(@, key)].value = value]
                               ELSE Append(@, [key |-> key, value |-> value])]

\* build_adjacency as a function: its locals when it returns.
BuildStep(st) ==
    CASE st.pc = "trip" -> TripStep(st)
      [] st.pc = "rows" -> RowStep(st)
      [] st.pc = "final" -> FinalStep(st)

RECURSIVE BuildRun(_)
BuildRun(st) == IF st.pc = "done" THEN st ELSE BuildRun(BuildStep(st))

build_adjacency(trips) == BuildRun(BuildInit(trips))

BuildIdle == [pc |-> "idle", adjacency |-> <<>>]

BuildIsIdle == bld = BuildIdle /\ stop_times = <<>>

\* The table st given as it is, without a file.
BuildInputs == stop_times = <<>> /\ \E trips \in TripLists : bld = BuildInit(trips)

NextTrip ==
    /\ bld.pc = "trip"
    /\ bld' = TripStep(bld)
    /\ UNCHANGED <<busVars, transit, grp, geom, stop_times, apiVars>>

NextRow ==
    /\ bld.pc = "rows"
    /\ bld' = RowStep(bld)
    /\ UNCHANGED <<busVars, transit, grp, geom, stop_times, apiVars>>

FinalEntry ==
    /\ bld.pc = "final"
    /\ bld' = FinalStep(bld)
    /\ UNCHANGED <<busVars, transit, grp, geom, stop_times, apiVars>>

NextBuild == NextTrip \/ NextRow \/ FinalEntry

----------------------------------------------------------------------------
(* scripts/build_adjacency_by_route.py: from the stop_times file           *)

\* A row of the file: trip_id and stop_id are texts ("" when missing),
\* stop_sequence is <<n>> when int() reads it and None otherwise,
\* shape_dist_traveled is <<metres>> when float() reads it and None otherwise.
CsvRow(trip_id, stop_id, stop_sequence, arrival, departure, shape_dist) ==
    [trip_id |-> trip_id, stop_id |-> stop_id, stop_sequence |-> stop_sequence,
     arrival_time |-> arrival, departure_time |-> departure, shape_dist |-> shape_dist]

\* The rows of the model's files: trip t1 through A, B, C, with three more
\* rows of t1 (no stop_sequence; times int() cannot read; no stop_id), a row
\* with no trip_id, and trip t2 from A to C.
CsvPool ==
    { CsvRow("t1", "A", Some(1), Time(8, 0, 0), Time(8, 0, 0), Some(0)),
      CsvRow("t1", "B", Some(3), Time(8, 2, 0), Time(8, 2, 0), Some(800)),
      CsvRow("t1", "C", Some(5), Time(8, 5, 0), Time(8, 5, 0), Some(2000)),
      CsvRow("t1", "C", None, Time(8, 3, 0), Time(8, 3, 0), Some(1200)),
      CsvRow("t1", "B", Some(2), BadTime, BadTime, Some(500)),
      CsvRow("t1", "", Some(4), Time(8, 4, 0), Time(8, 4, 0), Some(1500)),
      CsvRow("", "B", Some(4), Time(8, 4, 0), Time(8, 4, 0), Some(1500)),
      CsvRow("t2", "A", Some(1), Time(9, 0, 0), Time(9, 0, 0), Some(0)),
      CsvRow("t2", "C", Some(2), Time(9, 4, 0), Time(9, 4, 0), Some(2000)) }

\* The most rows in a file.
MaxCsvRows == 4

\* The files: distinct rows of the pool in any order.
CsvFiles ==
    UNION {{f \in [1..n -> CsvPool] : \A i, j \in 1..n : i # j => f[i] # f[j]}
           : n \in 0..MaxCsvRows}

\* read_trips (lines 16-26): trip_id -> (route_id, shape_id).
trips_map == [tid \in {"t1", "t2"} |-> <<"60", "s1">>]

\* The trip ids in the order of the index ix_trip (line 37).
TripIdOrder == <<"t1", "t2">>

\* build_sqlite (lines 39-66): the rows inserted into st, in file order: a row
\* without trip_id or stop_id is left out, an unreadable stop_sequence is 0.
RECURSIVE build_sqlite(_)
build_sqlite(rows) ==
    IF rows = <<>> THEN <<>>
    ELSE LET r == Head(rows)
             seq_i == IF IsNone(r.stop_sequence) THEN 0 ELSE Val(r.stop_sequence)
         IN  IF r.trip_id = "" \/ r.stop_id = "" THEN build_sqlite(Tail(rows))
             ELSE <<[r EXCEPT !.stop_sequence = seq_i]>> \o build_sqlite(Tail(rows))

\* Line 114: the rows of one trip, ORDER BY stop_sequence (the model's files
\* hold no two rows of a trip with the same stop_sequence).
RECURSIVE RowsOfTrip(_, _)
RowsOfTrip(st, tid) ==
    IF st = <<>> THEN <<>>
    ELSE LET rest == RowsOfTrip(Tail(st), tid)
             r == Head(st)
             before == {k \in 1..Len(rest) : rest[k].stop_sequence < r.stop_sequence}
         IN  IF r.trip_id # tid THEN rest
             ELSE SubSeq(rest, 1, Cardinality(before)) \o <<r>>
                      \o SubSeq(rest, Cardinality(before) + 1, Len(rest))

\* Lines 104-118: the trips of the table st with their rows and their
\* trips_map entry (<<"", "">> without one).
TripsOf(st) ==
    LET ids == SelectSeq(TripIdOrder, LAMBDA tid : \E k \in 1..Len(st) : st[k].trip_id = tid)
        entry(tid) == IF tid \in DOMAIN trips_map THEN trips_map[tid] ELSE <<"", "">>
        rows(tid) == LET rs == RowsOfTrip(st, tid)
                     IN  [k \in 1..Len(rs) |->
                             Row(rs[k].stop_id, rs[k].arrival_time, rs[k].departure_time,
                                 rs[k].shape_dist)]
    IN  [k \in 1..Len(ids) |-> Trip(entry(ids[k])[1], entry(ids[k])[2], rows(ids[k]))]

CsvInputs == stop_times \in CsvFiles /\ bld = [pc |-> "csv", adjacency |-> <<>>]

\* main, lines 203-207: build_sqlite, then build_adjacency begins.
LoadStopTimes ==
    /\ bld.pc = "csv"
    /\ bld' = BuildInit(TripsOf(build_sqlite(stop_times)))
    /\ UNCHANGED <<busVars, transit, grp, geom, stop_times, apiVars>>

NextCsv == LoadStopTimes \/ NextTrip \/ NextRow \/ FinalEntry

----------------------------------------------------------------------------
(* app.py: the /api/isochrone endpoint and the result cache                *)

\* Line 27: CACHE_DURATION = timedelta(hours=24), in hours.
CACHE_DURATION == 24

\* The clock of the model advances by ClockStep hours, up to MaxClock; the
\* server has the threads of Threads and receives at most MaxRequests requests.
ClockStep == 12

MaxClock == 36

MaxRequests == 3

Threads == {1, 2}

\* Lines 30-35: the keys of TRANSPORT_MODES.
TRANSPORT_MODES == {"walking", "bike", "car", "public_transport"}

\* Lines 38-43: ISOCHRONE_COLORS.get(minutes, '#3b82f6').
ISOCHRONE_COLORS(minutes) ==
    CASE minutes = 15 -> "#22c55e"
      [] minutes = 30 -> "#eab308"
      [] minutes = 45 -> "#f97316"
      [] minutes = 60 -> "#ef4444"
      [] OTHER -> "#3b82f6"

\* The text of round(float(x), 3) in the key: a sign and the thousandths of a
\* degree.  A negative x that rounds to zero is -0.0, printed with its sign.
Rounded3(x) ==
    [negative |-> x < 0, thousandths |-> Abs(RoundHalfEven(x, Deg(1) \div 1000))]

\* get_cache_key (lines 46-52).
get_cache_key(lat, lon, mode, minutes) ==
    [lat |-> Rounded3(lat), lon |-> Rounded3(lon), mode |-> mode,
     minutes |-> minutes, version |-> "v2"]

\* A value of the JSON field minutes: an integer, a number with a fraction
\* (whole + tenths/10), a string of digits, any other string, or null.
Budget(kind, whole, tenths) == [kind |-> kind, whole |-> whole, tenths |-> tenths]

\* Line 158: int(minutes), None when it raises ValueError or TypeError.  A
\* number with a fraction is truncated.
int(minutes) ==
    CASE minutes.kind \in {"int", "float", "digits"} -> Some(minutes.whole)
      [] OTHER -> None

\* A JSON body: each field is None when the body lacks it.
Body(lat, lon, mode, minutes) == [lat |-> lat, lon |-> lon, mode |-> mode, minutes |-> minutes]

\* The requests of the model: no JSON body; origins on the equator that
\* round to -0.0, 0.0 and 0.001; the modes; budgets at and around the limits.
RequestPool ==
    {None}
    \cup {Some(Body(Some(0), Some(lon), Some("walking"), None)) : lon \in {-40, 0, 40, 100}}
    \cup {Some(Body(Some(0), Some(0), Some(mode), Some(Budget("int", 5, 0)))) :
              mode \in {"public_transport", "boat"}}
    \cup {Some(Body(Some(0), Some(0), None, Some(minutes))) :
              minutes \in {Budget("int", 4, 0), Budget("int", 120, 0),
                           Budget("int", 121, 0), Budget("float", 4, 9),
                           Budget("float", 120, 5), Budget("digits", 30, 0),
                           Budget("text", 0, 0), Budget("null", 0, 0)}}
    \cup {Some(Body(None, Some(0), Some("car"), None)),
          Some(Body(Some(0), None, Some("car"), None))}

\* The body of a response and its status.
Response(status, isochrone, from_cache, demo, error) ==
    [status |-> status, isochrone |-> isochrone, from_cache |-> from_cache,
     demo |-> demo, error |-> error]

Rejected(status, error) == Response(status, None, None, FALSE, error)

\* A thread that serves no request.
ReqIdle ==
    [pc |-> "idle", data |-> None, lat |-> 0, lon |-> 0, mode |-> "", minutes |-> 0,
     cache_key |-> None, entry |-> None, looked_at |-> 0, cached |-> None,
     geojson |-> None, response |-> None]

Return(st, response) == [st EXCEPT !.pc = "done", !.response = Some(response)]

\* Line 159: the budget is out of range.
OutOfRange(minutes) == minutes < 5 \/ minutes > 120

\* Lines 137-165: the body is read and validated; a valid request goes on to
\* the cache with its key.  data.get on a missing body (line 138) raises
\* AttributeError, which the server answers with status 500.
ReceiveStep(data) ==
    LET st == [ReqIdle EXCEPT !.data = data]
    IN  IF IsNone(data) THEN Return(st, Rejected(500, "AttributeError"))
        ELSE
        LET lat == Val(data).lat
            lon == Val(data).lon
            mode == IF IsNone(Val(data).mode) THEN "walking" ELSE Val(Val(data).mode)
            minutes == IF IsNone(Val(data).minutes) THEN Budget("int", 30, 0)
                       ELSE Val(Val(data).minutes)
        IN  IF IsNone(lat) \/ IsNone(lon)
            THEN Return(st, Rejected(400, "Latitud y longitud requeridas"))
            ELSE IF mode \notin TRANSPORT_MODES
            THEN Return(st, Rejected(400, "Modo de transporte no valido"))
            ELSE IF IsNone(int(minutes))
            THEN Return(st, Rejected(400, "Tiempo debe ser un numero valido"))
            ELSE IF OutOfRange(Val(int(minutes)))
            THEN Return(st, Rejected(400, "Tiempo debe estar entre 5 y 120 minutos"))
            ELSE [st EXCEPT !.pc = "check", !.lat = Val(lat), !.lon = Val(lon),
                            !.mode = mode, !.minutes = Val(int(minutes)),
                            !.cache_key = Some(get_cache_key(Val(lat), Val(lon), mode,
                                                             Val(int(minutes))))]

\* Line 57: `cache_key in isochrone_cache`; line 63 when it is not.
CheckStep(st, cache) ==
    IF Val(st.cache_key) \in DOMAIN cache THEN [st EXCEPT !.pc = "read"]
    ELSE [st EXCEPT !.pc = "after", !.cached = None]

\* Line 58: entry = isochrone_cache[cache_key]; KeyError when the key is gone.
ReadStep(st, cache) ==
    IF Val(st.cache_key) \in DOMAIN cache
    THEN [st EXCEPT !.pc = "expiry", !.entry = Some(cache[Val(st.cache_key)])]
    ELSE Return(st, Rejected(500, "KeyError"))

\* Line 59: datetime.now() - entry['timestamp'] < CACHE_DURATION.
Fresh(timestamp, clock) == clock - timestamp < CACHE_DURATION

\* Lines 59-60: the entry's data is returned when it is fresh; looked_at is
\* the value of datetime.now() in the test.
ExpiryStep(st, clock) ==
    IF Fresh(Val(st.entry).timestamp, clock)
    THEN [st EXCEPT !.pc = "after", !.looked_at = clock,
                    !.cached = Some(Val(st.entry).data)]
    ELSE [st EXCEPT !.pc = "del", !.looked_at = clock]

\* The cache without the entry of a key.
Without(cache, key) == [k \in DOMAIN cache \ {key} |-> cache[k]]

\* Lines 62-63: del isochrone_cache[cache_key], then None is returned.
DeleteReturn(st, cache) ==
    IF Val(st.cache_key) \in DOMAIN cache
    THEN [st EXCEPT !.pc = "after", !.cached = None]
    ELSE Return(st, Rejected(500, "KeyError"))

\* Lines 167-196: a cached value is answered at once (unless it is a transit
\* value without debug_info); transit and the demo mode are computed here;
\* the other modes go on to OpenRouteService.
AfterLookupStep(st, api_key) ==
    LET cached == st.cached
        has_debug == ~IsNone(cached) /\ "debug_info" \in DOMAIN Val(cached).properties
    IN  IF ~IsNone(cached) /\ ~(st.mode = "public_transport" /\ ~has_debug)
        THEN Return(st, Response(200, cached, Some(TRUE), FALSE, ""))
        ELSE IF st.mode = "public_transport"
        THEN Return(st, Response(200,
                                 generate_transit_isochrone(st.lat, st.lon, st.minutes).feature,
                                 None, TRUE, ""))
        ELSE IF api_key = ""
        THEN Return(st, Response(200,
                                 Some(generate_mock_isochrone(st.lat, st.lon, st.mode, st.minutes)),
                                 None, TRUE, ""))
        ELSE [st EXCEPT !.pc = "ors"]

\* What the call of OpenRouteService gives: a list of features, a list
\* without features, a requests.RequestException or another exception.
OrsOutcomes == {"features", "empty", "RequestException", "Exception"}

OrsStepCachesFallback(st, outcome) ==
    CASE outcome = "features" ->
            [st EXCEPT !.pc = "store",
                       !.geojson = Some([type |-> "Feature",
                                         properties |-> [mode |-> st.mode,
                                                         minutes |-> st.minutes,
                                                         color |-> ISOCHRONE_COLORS(st.minutes),
                                                         fillColor |-> ISOCHRONE_COLORS(st.minutes)],
                                         geometry |-> [type |-> "Polygon"]])]
      [] outcome = "empty" -> Return(st, Rejected(500, "No se pudo generar la isocrona"))
      [] outcome = "RequestException" ->
            [st EXCEPT !.pc = "store",
                       !.geojson = Some(generate_mock_isochrone(st.lat, st.lon, st.mode,
                                                                st.minutes))]
      [] OTHER -> Return(st, Rejected(500, "Error interno"))

\* Lines 202-251 but for the write to the cache.
OrsStep(st, outcome) ==
    CASE outcome = "features" ->
            [st EXCEPT !.pc = "store",
                       !.geojson = Some([type |-> "Feature",
                                         properties |-> [mode |-> st.mode,
                                                         minutes |-> st.minutes,
                                                         color |-> ISOCHRONE_COLORS(st.minutes),
                                                         fillColor |-> ISOCHRONE_COLORS(st.minutes)],
                                         geometry |-> [type |-> "Polygon"]])]
      [] outcome = "empty" -> Return(st, Rejected(500, "No se pudo generar la isocrona"))
      [] outcome = "RequestException" ->
            Return(st, Response(200,
                                Some(generate_mock_isochrone(st.lat, st.lon, st.mode, st.minutes)),
                                None, TRUE, "RequestException"))
      [] OTHER -> Return(st, Rejected(500, "Error interno"))

\* cache_isochrone (lines 66-71): the cache with the entry of the key.
cache_isochrone(cache, cache_key, data, clock) ==
    [k \in DOMAIN cache \cup {cache_key} |->
        IF k = cache_key THEN [data |-> data, timestamp |-> clock] ELSE cache[k]]

\* Line 238: the answer of a computed isochrone.
StoreReturn(st) == Return(st, Response(200, st.geojson, Some(FALSE), FALSE, ""))

ApiIsIdle ==
    /\ isochrone_cache = <<>>
    /\ ORS_API_KEY = ""
    /\ now = 0
    /\ req = [r \in Threads |-> ReqIdle]
    /\ served = 0

\* The server starts with an empty cache; the key is configured or not.
ApiInputs ==
    /\ isochrone_cache = <<>>
    /\ ORS_API_KEY \in {"", "key"}
    /\ now = 0
    /\ req = [r \in Threads |-> ReqIdle]
    /\ served = 0

Receive(r) ==
    /\ req[r].pc \in {"idle", "done"} /\ served < MaxRequests
    /\ \E data \in RequestPool : req' = [req EXCEPT ![r] = ReceiveStep(data)]
    /\ served' = served + 1
    /\ UNCHANGED <<isochrone_cache, ORS_API_KEY, now>>
    /\ UNCHANGED <<busVars, transit, grp, geom, buildVars>>

CacheCheck(r) ==
    /\ req[r].pc = "check"
    /\ req' = [req EXCEPT ![r] = CheckStep(req[r], isochrone_cache)]
    /\ UNCHANGED <<isochrone_cache, ORS_API_KEY, now, served>>
    /\ UNCHANGED <<busVars, transit, grp, geom, buildVars>>

CacheRead(r) ==
    /\ req[r].pc = "read"
    /\ req' = [req EXCEPT ![r] = ReadStep(req[r], isochrone_cache)]
    /\ UNCHANGED <<isochrone_cache, ORS_API_KEY, now, served>>
    /\ UNCHANGED <<busVars, transit, grp, geom, buildVars>>

CacheExpiry(r) ==
    /\ req[r].pc = "expiry"
    /\ req' = [req EXCEPT ![r] = ExpiryStep(req[r], now)]
    /\ UNCHANGED <<isochrone_cache, ORS_API_KEY, now, served>>
    /\ UNCHANGED <<busVars, transit, grp, geom, buildVars>>

CacheDelete(r) ==
    /\ req[r].pc = "del"
    /\ req' = [req EXCEPT ![r] = DeleteReturn(req[r], isochrone_cache)]
    /\ isochrone_cache' = Without(isochrone_cache, Val(req[r].cache_key))
    /\ UNCHANGED <<ORS_API_KEY, now, served>>
    /\ UNCHANGED <<busVars, transit, grp, geom, buildVars>>

AfterLookup(r) ==
    /\ req[r].pc = "after"
    /\ req' = [req EXCEPT ![r] = AfterLookupStep(req[r], ORS_API_KEY)]
    /\ UNCHANGED <<isochrone_cache, ORS_API_KEY, now, served>>
    /\ UNCHANGED <<busVars, transit, grp, geom, buildVars>>

OrsResponse(r) ==
    /\ req[r].pc = "ors"
    /\ \E outcome \in OrsOutcomes : req' = [req EXCEPT ![r] = OrsStep(req[r], outcome)]
    /\ UNCHANGED <<isochrone_cache, ORS_API_KEY, now, served>>
    /\ UNCHANGED <<busVars, transit, grp, geom, buildVars>>

CacheStore(r) ==
    /\ req[r].pc = "store"
    /\ isochrone_cache' = cache_isochrone(isochrone_cache, Val(req[r].cache_key),
                                          Val(req[r].geojson), now)
    /\ req' = [req EXCEPT ![r] = StoreReturn(req[r])]
    /\ UNCHANGED <<ORS_API_KEY, now, served>>
    /\ UNCHANGED <<busVars, transit, grp, geom, buildVars>>

\* Time passes.
Tick ==
    /\ now < MaxClock
    /\ now' = now + ClockStep
    /\ UNCHANGED <<isochrone_cache, ORS_API_KEY, req, served>>
    /\ UNCHANGED <<busVars, transit, grp, geom, buildVars>>

NextApi ==
    \/ Tick
    \/ \E r \in Threads :
           \/ Receive(r) \/ CacheCheck(r) \/ CacheRead(r) \/ CacheExpiry(r)
           \/ CacheDelete(r) \/ AfterLookup(r) \/ OrsResponse(r) \/ CacheStore(r)

----------------------------------------------------------------------------
(* Specifications                                                          *)

InitBus == ApiIsIdle /\ BusInputs /\ transit = TransitIdle /\ grp = GroupIdle /\ geom = GeomIdle /\ BuildIsIdle

InitTransit == ApiIsIdle /\ TransitInputs /\ BusIdle /\ grp = GroupIdle /\ geom = GeomIdle /\ BuildIsIdle

InitGroup == ApiIsIdle /\ GroupInputs /\ BusIdle /\ transit = TransitIdle /\ geom = GeomIdle /\ BuildIsIdle

InitGeom == ApiIsIdle /\ GeomInputs /\ BusIdle /\ transit = TransitIdle /\ grp = GroupIdle /\ BuildIsIdle

InitBuild ==
    ApiIsIdle /\ BuildInputs /\ BusIdle /\ transit = TransitIdle /\ grp = GroupIdle /\ geom = GeomIdle

\* compute_bus_areas.py alone
SpecBus == InitBus /\ [][NextBus]_vars

InitBusSigned ==
    ApiIsIdle /\ BusInputsSigned /\ transit = TransitIdle /\ grp = GroupIdle
    /\ geom = GeomIdle /\ BuildIsIdle

\* compute_bus_areas on adjacency tables with signed travel times.
SpecBusSigned == InitBusSigned /\ [][NextBus]_vars

\* The scheduling of a sequential script: a step that can be taken is taken.
FairSpecBus == InitBus /\ [][NextBus]_vars /\ WF_vars(NextBus)

\* generate_transit_isochrone alone
SpecTransit == InitTransit /\ [][NextTransit]_vars

\* group_connected_circles alone
SpecGroup == InitGroup /\ [][NextGroup]_vars

\* build_adjacency alone
SpecBuild == InitBuild /\ [][NextBuild]_vars

InitCsv == ApiIsIdle /\ CsvInputs /\ BusIdle /\ transit = TransitIdle /\ grp = GroupIdle /\ geom = GeomIdle

\* build_adjacency_by_route.py from the stop_times file
SpecCsv == InitCsv /\ [][NextCsv]_vars

\* The adjacency table: a run of build_adjacency, or a run of the script that
\* reads the table.
SpecAdjacency == (InitBuild \/ InitBus) /\ [][NextBuild \/ NextBus]_vars

\* The functions that return a polygon ring: a call of a ring builder, or a
\* run of generate_transit_isochrone.
SpecRings == (InitGeom \/ InitTransit) /\ [][NextGeom \/ NextTransit]_vars

\* The two reachability computations: a run of either.
SpecReach == (InitBus \/ InitTransit) /\ [][NextBus \/ NextTransit]_vars

InitApi ==
    /\ ApiInputs /\ BusIdle /\ transit = TransitIdle /\ grp = GroupIdle /\ geom = GeomIdle
    /\ BuildIsIdle

\* The server of app.py: requests served by the threads of the server.
SpecApi == InitApi /\ [][NextApi]_vars

----------------------------------------------------------------------------
(* C1: traverse_from_stop terminates on every adjacency map, cyclic ones   *)
(* included, and one traversal emits each stop id at most once (and no     *)
(* more stops than it has visited).                                        *)

EmitsOnce ==
    /\ \A i, j \in 1..Len(trav.results) :
           i # j => trav.results[i].stop # trav.results[j].stop
    /\ Len(trav.results) <= Cardinality(trav.visited)

C1_TerminatesVisitingOnce == <>(bus_pc = "done") /\ []EmitsOnce

\* A traversal that came back to a stop it had visited, and ended there.
C1_Witness ==
    /\ bus_pc = "done"
    /\ trav.cur \in trav.visited
    /\ Len(trav.results) >= 2

----------------------------------------------------------------------------
(* C2: every reachable stop a traversal emits carries a strictly positive  *)
(* remaining time.                                                         *)

\* Every stops_reached entry built so far by generate_transit_isochrone.
StopsReached(st) ==
    Flatten([i \in 1..Len(st.debug_info.routes_used) |->
                 st.debug_info.routes_used[i].stops_reached])
    \o (IF st.pc \in {"dir", "ride"} THEN Val(st.route_debug).stops_reached ELSE <<>>)

BusTimeLeftPositive ==
    \A i \in 1..Len(trav.results) : trav.results[i].time_left > 0

\* C2 as claimed: the time_left of every result of traverse_from_stop and the
\* time_remaining of every stops_reached entry is strictly positive.
C2_RemainingPositive ==
    /\ BusTimeLeftPositive
    /\ transit.pc # "idle" =>
           \A i \in 1..Len(StopsReached(transit)) :
               StopsReached(transit)[i].time_remaining > 0

\* The time left on arriving at the stop the ride loop stands at (ticks).
TimeLeftAtIdx(st) ==
    st.minutes * TPM - st.walk_time_to_closest
        - (st.accumulated_distance * TPM) \div SUBTE_SPEED

\* A step of the ride loop that emitted a stop.
EmittedStop ==
    /\ transit.pc = "ride"
    /\ transit'.pc = "ride"
    /\ Len(StopsReached(transit')) = Len(StopsReached(transit)) + 1

\* C2 amended: a stop is emitted only with time left (the traversal's time_left,
\* the ride loop's unrounded time_remaining, and so the radius of the circle
\* drawn for it, are strictly positive); the time_remaining recorded in
\* stops_reached is that time rounded to 0.1 min, which is never negative and
\* can be 0.0.
C2_EmittedWithTimeLeft ==
    /\ [](/\ BusTimeLeftPositive
          /\ transit.pc # "idle" =>
                 \A i \in 1..Len(StopsReached(transit)) :
                     StopsReached(transit)[i].time_remaining >= 0)
    /\ [][EmittedStop =>
            LET pts == transit'.all_reachable_points
                n == Len(pts)
            IN  /\ TimeLeftAtIdx(transit') > 0
                /\ pts[n - 3].lat - pts[n - 1].lat
                       = 2 * ((TimeLeftAtIdx(transit') * WALK_SPEED * 25) \div TPM)]_vars

\* A stop emitted with 0.002 min left, recorded with time_remaining 0.0.
C2_Witness ==
    /\ transit.pc = "ride"
    /\ TimeLeftAtIdx(transit) > 0
    /\ Len(Val(transit.route_debug).stops_reached) > 0
    /\ LET reached == Val(transit.route_debug).stops_reached
       IN  /\ reached[Len(reached)].name =
                  get_transport_routes[RouteOrder[transit.route_i]].stops[transit.idx].name
           /\ reached[Len(reached)].time_remaining = 0

----------------------------------------------------------------------------
(* C6: with the origin and the route data fixed, a larger time budget      *)
(* never gives fewer reachable stops, nor a smaller origin disk.           *)

C6_MonotoneInBudget ==
    /\ bus_pc = "done" =>
           /\ Len(out_rows) = Len(BusResults(shape_map, stop_dist, time_minutes))
           /\ \A m \in BusMinutes :
                  m >= time_minutes =>
                      Len(BusResults(shape_map, stop_dist, m)) >= Len(out_rows)
    /\ transit.pc = "done" =>
           \A m \in TransitMinutes :
               m >= transit.minutes =>
                   LET other == generate_transit_isochrone(transit.center_lat,
                                                           transit.center_lon, m)
                   IN  /\ Len(StopsReached(other)) >= Len(StopsReached(transit))
                       /\ other.debug_info.max_walk_distance
                              >= transit.debug_info.max_walk_distance

\* A request that reaches stops, and fewer of them than a larger budget does.
C6_Witness ==
    /\ transit.pc = "done"
    /\ Len(StopsReached(transit)) > 0
    /\ \E m \in TransitMinutes :
           /\ m > transit.minutes
           /\ Len(StopsReached(generate_transit_isochrone(
                      transit.center_lat, transit.center_lon, m)))
                  > Len(StopsReached(transit))

----------------------------------------------------------------------------
(* C7: the origin disk is always emitted, its radius is (budget x 0.7) x   *)
(* walking speed (1680 m for 30 minutes at 80 m/min), and the primary      *)
(* polygon is drawn with that same radius.                                 *)

----------------------------------------------------------------------------
(* C8: a group whose nearest stop is farther than can be walked in 70% of  *)
(* the budget is discarded.                                                *)

\* The line's closest stop is farther from the origin than MAX_WALK_DISTANCE.
FarLine(st, r) ==
    ClosestStop(get_transport_routes[r].stops, st.center_lat, st.center_lon).distance
        > st.debug_info.max_walk_distance

RoutesUsedNames(st) ==
    {st.debug_info.routes_used[i].name : i \in 1..Len(st.debug_info.routes_used)}

TransitDiscardsFar ==
    transit.pc = "done" =>
        /\ \A i \in 1..Len(RouteOrder) :
               FarLine(transit, RouteOrder[i]) =>
                   get_transport_routes[RouteOrder[i]].name \notin RoutesUsedNames(transit)
        /\ Len(transit.all_reachable_points)
               = Len(Dirs) * (1 + Len(StopsReached(transit)))

\* The group's nearest stop takes longer to walk to than 70% of the budget.
FarGroup ==
    /\ bus_pc \in {"loop", "done"}
    /\ ~IsNone(find_nearest_stop_for_shape(shape_map, stop_dist))
    /\ (Val(find_nearest_stop_for_shape(shape_map, stop_dist)).d * TPS * WALK_SPEED_DEN)
           \div WALK_SPEED_NUM > MaxWalk(time_minutes)

----------------------------------------------------------------------------
(* C4: group_connected_circles is order-independent: every permutation of  *)
(* the list of disks gives the same partition into groups.                 *)

Partition(groups) ==
    {{groups[g][k].name : k \in 1..Len(groups[g])} : g \in 1..Len(groups)}

Orderings(seq) ==
    {[x \in 1..Len(seq) |-> seq[p[x]]] :
        p \in {q \in [1..Len(seq) -> 1..Len(seq)] :
                  \A a, b \in 1..Len(seq) : a # b => q[a] # q[b]}}

C4_OrderIndependent ==
    grp.pc = "done" =>
        \A other \in Orderings(grp.circles) :
            Partition(group_connected_circles(other)) = Partition(grp.groups)

----------------------------------------------------------------------------
(* C5: two disks whose centre distance (measured, as the code measures it  *)
(* for the pair, at the latitude of the one earlier in the list) is at     *)
(* most the sum of their radii end in the same group.                      *)

\* distance <= radius + radius, through the squares.
Overlap(c1, c2) ==
    LET k == LenScale(c1.center[1] - c2.center[1], c1.center[2] - c2.center[2],
                      c1.radius + c2.radius)
        dx == (((c1.center[1] - c2.center[1]) \div k) * AbsCos(c1.center[2])[1])
                  \div AbsCos(c1.center[2])[2]
        dy == (c1.center[2] - c2.center[2]) \div k
        reach == (c1.radius + c2.radius) \div k
    IN  reach >= 0 /\ dx * dx + dy * dy <= reach * reach

SameGroup(groups, a, b) ==
    \E g \in 1..Len(groups) :
        /\ \E k \in 1..Len(groups[g]) : groups[g][k] = a
        /\ \E k \in 1..Len(groups[g]) : groups[g][k] = b

----------------------------------------------------------------------------
(* C3: every polygon ring returned by create_circle_geometry,              *)
(* generate_mock_isochrone, generate_transit_isochrone,                    *)
(* create_grouped_geometry, create_all_circles_geometry and                *)
(* create_group_hull is non-empty and closed (its last point equals its    *)
(* first), for every list of disks, the empty list included.               *)

RingClosed(ring) == ring # <<>> /\ ring[1] = ring[Len(ring)]

C3_RingsNonEmptyClosed ==
    /\ geom.pc = "returned" => RingClosed(geom.ring)
    /\ transit.pc = "done" => RingClosed(Val(transit.feature).geometry.coordinates[1])

----------------------------------------------------------------------------
(* C9: build_adjacency gives exactly one entry per (route, shape, stop)    *)
(* key that has a following row, and the entry's next stop is the key's    *)
(* most frequent successor, the first met among equally frequent ones.     *)

\* The (key, successor) pairs of the table, in the order the rows are read.
TripPairs(trip) ==
    [i \in 1..(Len(trip.rows) - 1) |->
        [key |-> <<trip.route_id, trip.shape_id, trip.rows[i].stop_id>>,
         next |-> trip.rows[i + 1].stop_id]]

AllPairs(trips) == Flatten([t \in 1..Len(trips) |-> TripPairs(trips[t])])

Occurrences(pairs, key, next) ==
    {k \in 1..Len(pairs) : pairs[k].key = key /\ pairs[k].next = next}

\* next is no less frequent than other after key, and was met first if they
\* are equally frequent.
Prevails(pairs, key, next, other) ==
    LET mine == Occurrences(pairs, key, next)
        theirs == Occurrences(pairs, key, other)
    IN  \/ Cardinality(mine) > Cardinality(theirs)
        \/ /\ Cardinality(mine) = Cardinality(theirs)
           /\ \A k \in theirs : \E l \in mine : l <= k

C9_MostFrequentSuccessor ==
    bld.pc = "done" =>
        LET pairs == AllPairs(bld.trips)
            adjacency == bld.adjacency
        IN  /\ {adjacency[e].key : e \in 1..Len(adjacency)}
                   = {pairs[k].key : k \in 1..Len(pairs)}
            /\ \A e, f \in 1..Len(adjacency) :
                   adjacency[e].key = adjacency[f].key => e = f
            /\ \A e \in 1..Len(adjacency) :
                   /\ Occurrences(pairs, adjacency[e].key,
                                  adjacency[e].value.next_stop_id) # {}
                   /\ \A k \in 1..Len(pairs) :
                          pairs[k].key = adjacency[e].key =>
                              Prevails(pairs, adjacency[e].key,
                                       adjacency[e].value.next_stop_id, pairs[k].next)

\* A finished table with several keys, one of them with two equally frequent
\* successors.
C9_Witness ==
    /\ bld.pc = "done"
    /\ Len(bld.adjacency) >= 2
    /\ \E e \in 1..Len(bld.adjacency), k \in 1..Len(AllPairs(bld.trips)) :
           LET pairs == AllPairs(bld.trips)
               key == bld.adjacency[e].key
               next == bld.adjacency[e].value.next_stop_id
           IN  /\ pairs[k].key = key
               /\ pairs[k].next # next
               /\ Cardinality(Occurrences(pairs, key, next))
                      = Cardinality(Occurrences(pairs, key, pairs[k].next))

----------------------------------------------------------------------------
(* C10: every travel time and every travel distance in build_adjacency's   *)
(* output is non-negative or absent, also for times beyond 24:00:00 and    *)
(* for differences below -24 h.                                            *)

C10_NonNegative ==
    \A e \in 1..Len(bld.adjacency) :
        /\ IsNone(bld.adjacency[e].value.travel_time)
               \/ Val(bld.adjacency[e].value.travel_time) >= 0
        /\ IsNone(bld.adjacency[e].value.travel_dist)
               \/ Val(bld.adjacency[e].value.travel_dist)[1] >= 0

----------------------------------------------------------------------------
(* C11: an edge with no travel-time sample but with a distance gets the    *)
(* travel time distance / fallback speed: exactly, in traverse_from_stop;  *)
(* rounded to the nearest whole second (halves to the even one) where      *)
(* build_adjacency stores it.                                              *)

\* The entries of the finished adjacency whose chosen successor has no time
\* sample but has a distance sample.
FallbackEntries ==
    {e \in 1..Len(bld.adjacency) :
        LET key == <<bld.adjacency[e].key, bld.adjacency[e].value.next_stop_id>>
        IN  Get(bld.travel_times, key) = <<>> /\ Get(bld.travel_dists, key) # <<>>}

\* As claimed: the stored travel time times the fallback speed is the distance.
FallbackStoredExact ==
    \A e \in FallbackEntries :
        LET value == bld.adjacency[e].value
        IN  /\ ~IsNone(value.travel_time)
            /\ Val(value.travel_time) * fallback_speed * Val(value.travel_dist)[2]
                   = Val(value.travel_dist)[1]

\* The stored travel time is a whole number of seconds within half a second
\* of distance / fallback speed, the even one of the two when both are.
FallbackStoredRounded ==
    \A e \in FallbackEntries :
        LET value == bld.adjacency[e].value
            num == Val(value.travel_dist)[1]
            den == Val(value.travel_dist)[2] * fallback_speed
            t == Val(value.travel_time)
        IN  /\ ~IsNone(value.travel_time)
            /\ 2 * Abs(t * den - num) <= den
            /\ 2 * Abs(t * den - num) = den => t % 2 = 0

\* The time one visited stop adds to acc, times BUS_SPEED_FALLBACK: nothing
\* when the loop ended at that stop before acc += dt.
ExactRide(stop) ==
    IF stop \notin DOMAIN shape_map THEN 0
    ELSE IF ~IsNone(shape_map[stop].tt)
         THEN Val(shape_map[stop].tt) * TPS * BUS_SPEED_FALLBACK
    ELSE IF ~IsNone(shape_map[stop].td) THEN Val(shape_map[stop].td) * TPS
    ELSE 0

RECURSIVE SumExactRide(_)
SumExactRide(stops) ==
    IF stops = {} THEN 0
    ELSE LET stop == CHOOSE x \in stops : TRUE
         IN  ExactRide(stop) + SumExactRide(stops \ {stop})

\* traverse_from_stop's acc is the sum of the exact times of the edges taken.
FallbackInferredExact ==
    bus_pc \in {"loop", "done"} =>
        trav.acc * BUS_SPEED_FALLBACK = SumExactRide(trav.visited)

C11_FallbackExact == FallbackStoredExact /\ FallbackInferredExact

C11_FallbackRoundedOrExact == FallbackStoredRounded /\ FallbackInferredExact

\* A finished table with a stored fallback time that is not the exact quotient.
C11_Witness ==
    /\ bld.pc = "done"
    /\ \E e \in FallbackEntries :
           Val(bld.adjacency[e].value.travel_time) * fallback_speed
               * Val(bld.adjacency[e].value.travel_dist)[2]
                   # Val(bld.adjacency[e].value.travel_dist)[1]

----------------------------------------------------------------------------
(* C12: a malformed row of the stop_times file (no trip_id, no stop_id, a  *)
(* stop_sequence or an arrival or departure time that cannot be read) is   *)
(* skipped: the successor counts and the time samples of the build are     *)
(* those of the file without its malformed rows.                           *)

Unreadable(t) == t # <<>> /\ IsNone(parse_time_to_seconds(t))

Malformed(r) ==
    \/ r.trip_id = ""
    \/ r.stop_id = ""
    \/ IsNone(r.stop_sequence)
    \/ Unreadable(r.arrival_time)
    \/ Unreadable(r.departure_time)

WellFormedRows(rows) == SelectSeq(rows, LAMBDA r : ~Malformed(r))

C12_MalformedSkipped ==
    bld.pc = "done" =>
        LET clean == build_adjacency(TripsOf(build_sqlite(WellFormedRows(stop_times))))
        IN  /\ bld.next_counts = clean.next_counts
            /\ bld.travel_times = clean.travel_times

----------------------------------------------------------------------------
(* C13: generate_transit_isochrone always returns one Feature whose        *)
(* geometry is a Polygon of exactly one ring, with properties carrying the *)
(* mode, the time budget and debug_info with its routes_used list.         *)

----------------------------------------------------------------------------
(* C14: the primary polygon generate_transit_isochrone returns is the      *)
(* boundary of the origin disk alone, a function of the origin and the     *)
(* budget only; and every disk drawn around a reached stop has an entry in *)
(* debug_info with its centre, its radius (to the nearest metre), its name *)
(* and the line it was reached by.                                         *)

\* The stops_reached entries built so far, each with the name of its line.
ReachedWithRoute(st) ==
    LET tagged(route_debug) ==
            [k \in 1..Len(route_debug.stops_reached) |->
                [stop |-> route_debug.stops_reached[k], route |-> route_debug.name]]
    IN  Flatten([i \in 1..Len(st.debug_info.routes_used) |->
                    tagged(st.debug_info.routes_used[i])])
        \o (IF st.pc \in {"dir", "ride"} THEN tagged(Val(st.route_debug)) ELSE <<>>)

\* The line called name has a stop of that name at that place.
StopOfLine(name, stop) ==
    \E r \in DOMAIN get_transport_routes :
        /\ get_transport_routes[r].name = name
        /\ \E k \in 1..Len(get_transport_routes[r].stops) :
               LET s == get_transport_routes[r].stops[k]
               IN  s.name = stop.name /\ s.lat = stop.lat /\ s.lon = stop.lon

----------------------------------------------------------------------------
(* C15: requests served in parallel without locking never interfere: no    *)
(* interleaving of the steps of two requests, the membership test, the     *)
(* read, the expiry test and the delete of get_cached_isochrone and the    *)
(* write of cache_isochrone included, ends a request with an error that a  *)
(* sequential execution cannot give (a KeyError on isochrone_cache).       *)
C15_NoInterference ==
    \A r \in Threads :
        req[r].pc = "done" => Val(req[r].response).error # "KeyError"

----------------------------------------------------------------------------
(* C16: when no line has a stop within walking range of the origin,        *)
(* generate_transit_isochrone still returns a feature: its ring is the     *)
(* closed boundary of the origin disk, no other disk was drawn and         *)
(* routes_used is empty; when the adjacency table is empty or no stop of   *)
(* it has a position, compute_bus_areas ends with no row and no error.     *)

\* The closest stop of every line is farther than the walk allowed.
NoLineInRange(st) ==
    \A i \in 1..Len(RouteOrder) :
        LET stops == get_transport_routes[RouteOrder[i]].stops
            closest == ClosestStop(stops, st.center_lat, st.center_lon)
        IN  (closest.distance * TPM) \div WALK_SPEED > MAX_WALK_TO_STATION(st.minutes)

----------------------------------------------------------------------------
(* C17: the endpoint accepts a budget only in the range 5..120 minutes: a  *)
(* request (with a position and a known mode) whose budget is not a number *)
(* or is a number below 5 or above 120 is answered with status 400 and no  *)
(* isochrone, without going on to the cache.                               *)

\* The budget as sent is not a number, or a number out of 5..120.
BadBudget(minutes) ==
    \/ minutes.kind \in {"text", "null"}
    \/ 10 * minutes.whole + minutes.tenths < 10 * 5
    \/ 10 * minutes.whole + minutes.tenths > 10 * 120

\* The request of the thread has a position, a known mode and a budget.
SentBudget(st) ==
    /\ st.pc # "idle" /\ ~IsNone(st.data)
    /\ ~IsNone(Val(st.data).lat) /\ ~IsNone(Val(st.data).lon)
    /\ IsNone(Val(st.data).mode) \/ Val(Val(st.data).mode) \in TRANSPORT_MODES
    /\ ~IsNone(Val(st.data).minutes)

C17_BudgetRangeEnforced ==
    \A r \in Threads :
        (SentBudget(req[r]) /\ BadBudget(Val(Val(req[r].data).minutes))) =>
            /\ req[r].pc = "done"
            /\ Val(req[r].response).status = 400
            /\ IsNone(Val(req[r].response).isochrone)

----------------------------------------------------------------------------
(* C18: the cache has a fixed time-to-live.  A lookup returns the stored   *)
(* value only when the entry was stored less than 24 hours before it and   *)
(* returns nothing (None) otherwise; after the lookup of an expired entry  *)
(* that entry is not in the cache; and two requests with the same mode and *)
(* budget whose origins round to the same 3 decimals have the same key.    *)

\* The lookup of the thread has ended (the request may have ended too).
LookedUp(st) == st.pc \in {"after", "ors", "store", "done"} /\ ~IsNone(st.cache_key)

\* The lookup of the thread read an entry and found it expired.
FoundExpired(st) ==
    /\ st.pc \in {"del", "after", "ors", "store", "done"}
    /\ ~IsNone(st.entry) /\ ~Fresh(Val(st.entry).timestamp, st.looked_at)

\* The origins of two requests are equal once rounded to 3 decimals.
SameRounding(s1, s2) ==
    /\ RoundHalfEven(s1.lat, Deg(1) \div 1000) = RoundHalfEven(s2.lat, Deg(1) \div 1000)
    /\ RoundHalfEven(s1.lon, Deg(1) \div 1000) = RoundHalfEven(s2.lon, Deg(1) \div 1000)

C18_CacheTimeToLive ==
    /\ \A r \in Threads :
           LET st == req[r]
           IN  /\ (LookedUp(st) /\ ~IsNone(st.cached)) =>
                      /\ ~IsNone(st.entry) /\ st.cached = Some(Val(st.entry).data)
                      /\ st.looked_at - Val(st.entry).timestamp < CACHE_DURATION
               /\ (LookedUp(st) /\ st.pc = "done") =>
                      Val(st.response).error # "KeyError"
               /\ (LookedUp(st) /\ FoundExpired(st)) =>
                      /\ IsNone(st.cached)
                      /\ \/ Val(st.cache_key) \notin DOMAIN isochrone_cache
                         \/ isochrone_cache[Val(st.cache_key)] # Val(st.entry)
    /\ \A r1, r2 \in Threads :
           (/\ ~IsNone(req[r1].cache_key) /\ ~IsNone(req[r2].cache_key)
            /\ SameRounding(req[r1], req[r2])
            /\ req[r1].mode = req[r2].mode /\ req[r1].minutes = req[r2].minutes) =>
               req[r1].cache_key = req[r2].cache_key

----------------------------------------------------------------------------
(* C19: the groups group_connected_circles returns are exactly the         *)
(* connected components of the relation "centre distance < radius_A +      *)
(* radius_B + tolerance" between disks: every disk of the list is in       *)
(* exactly one group, and two disks are in one group if and only if a      *)
(* chain of pairwise-connected disks links them.  The relation is one      *)
(* between two disks, whichever comes first in the list.                   *)

\* The two disks are connected, the distance measured at either latitude.
Near(a, b) == Connected(a, b) \/ Connected(b, a)

\* The indices a chain of connected disks links to those of S.
RECURSIVE Component(_, _)
Component(circles, S) ==
    LET T == S \cup {j \in 1..Len(circles) : \E i \in S : Near(circles[i], circles[j])}
    IN  IF T = S THEN S ELSE Component(circles, T)

\* The number of places the disk has in the groups.
Places(groups, disk) ==
    Cardinality({<<g, k>> \in (1..Len(groups)) \X (1..MaxDisks) :
                    k <= Len(groups[g]) /\ groups[g][k] = disk})

C19_GroupsAreComponents ==
    grp.pc = "done" =>
        /\ \A i \in 1..Len(grp.circles) : Places(grp.groups, grp.circles[i]) = 1
        /\ \A i, j \in 1..Len(grp.circles) :
               SameGroup(grp.groups, grp.circles[i], grp.circles[j])
                   <=> j \in Component(grp.circles, {i})

----------------------------------------------------------------------------
(* C20: in a traversal the stop arrived at, once the edge's travel time is *)
(* added, is emitted if and only if the new elapsed total is strictly less *)
(* than the budget; once the total reaches or exceeds the budget the branch*)
(* stops advancing: no stop is visited after the budget is reached.        *)

\* The stop has a result in traverse_from_stop's results.
BusEmitted(stop) == \E i \in 1..Len(trav.results) : trav.results[i].stop = stop

\* traverse_from_stop: a stop is emitted only with time left; the stop the
\* traversal ended at with time left was emitted; and every stop visited
\* (with a row to ride on from) was visited, and so emitted, with time left.
BusEmittedIffTimeLeft ==
    bus_pc = "loop" =>
        /\ BusTimeLeftPositive
        /\ (~trav.live /\ trav.cur # "" /\ trav.acc < remaining) => BusEmitted(trav.cur)
        /\ \A stop \in trav.visited : stop \in DOMAIN shape_map => BusEmitted(stop)

\* The distance ridden along the line from stop a to stop b, as the ride loop
\* accumulates it (lines 551-554).
RECURSIVE AlongDistance(_, _, _)
AlongDistance(stops, a, b) ==
    IF a = b THEN 0
    ELSE LET prev == IF b > a THEN b - 1 ELSE b + 1
         IN  AlongDistance(stops, a, prev)
             + PlanarDistance(stops[prev].lat, stops[prev].lon, stops[b].lat, stops[b].lon)

\* The stops of the line that the ride from its closest stop reaches with
\* time left.
WithinBudgetStops(st, stops) ==
    LET closest == ClosestStop(stops, st.center_lat, st.center_lon)
        walk == (closest.distance * TPM) \div WALK_SPEED
    IN  {k \in 1..Len(stops) :
            /\ k # closest.index
            /\ walk + (AlongDistance(stops, closest.index, k) * TPM) \div SUBTE_SPEED
                   < st.minutes * TPM}

\* generate_transit_isochrone: the stops emitted for a line are those the
\* ride arrives at with time left.
RideEmittedIffTimeLeft ==
    transit.pc # "idle" =>
        \A u \in 1..Len(transit.debug_info.routes_used) :
            \A r \in DOMAIN get_transport_routes :
                get_transport_routes[r].name = transit.debug_info.routes_used[u].name =>
                    LET stops == get_transport_routes[r].stops
                        reached == transit.debug_info.routes_used[u].stops_reached
                    IN  /\ {reached[k].name : k \in 1..Len(reached)}
                               = {stops[k].name : k \in WithinBudgetStops(transit, stops)}
                        /\ Len(reached) = Cardinality(WithinBudgetStops(transit, stops))

C20_EmittedIffWithinBudget == BusEmittedIffTimeLeft /\ RideEmittedIffTimeLeft

----------------------------------------------------------------------------
(* C21: a stop traverse_from_stop arrives at with elapsed time below the   *)
(* budget is emitted even when it is the end of the line (it has no row in *)
(* the adjacency table); the missing row only ends the advance.            *)

\* The traversal ended at a stop without a row, with time left.
EndedAtEndOfLine ==
    /\ bus_pc = "loop" /\ ~trav.live
    /\ trav.cur # "" /\ trav.cur \notin DOMAIN shape_map
    /\ trav.cur \in trav.visited
    /\ trav.acc < remaining

C21_EndOfLineEmitted == EndedAtEndOfLine => BusEmitted(trav.cur)

----------------------------------------------------------------------------
(* C22: the elapsed time of a traversal starts at the walking time to the  *)
(* nearest stop plus the fixed boarding overhead: the remaining time of    *)
(* every emitted stop is the budget minus (walking time + boarding         *)
(* overhead + the travel times of the edges ridden to reach it).           *)

\* The time (ticks) of the edge that leaves a stop, as line 116-124 takes it.
EdgeTime(entry) ==
    IF IsNone(entry.tt) THEN (Val(entry.td) * TPS) \div BUS_SPEED_FALLBACK
    ELSE Val(entry.tt) * TPS

\* The travel times of the edges ridden from cur to target along the chain.
RECURSIVE ChainTime(_, _, _)
ChainTime(stops_map, cur, target) ==
    IF cur = target THEN 0
    ELSE EdgeTime(stops_map[cur]) + ChainTime(stops_map, stops_map[cur].next, target)

\* The time left of every result is the budget less walked, less BOARD_TIME,
\* less the ride from the nearest stop.
BusTimeLeftIs(walked) ==
    bus_pc = "loop" =>
        LET nearest == Val(find_nearest_stop_for_shape(shape_map, stop_dist))
        IN  \A i \in 1..Len(trav.results) :
                trav.results[i].time_left
                    = TotalSeconds(time_minutes) * TPS - walked - BOARD_TIME * TPS
                      - ChainTime(shape_map, nearest.stop, trav.results[i].stop)

\* The walking time to the nearest stop, and the time main takes for it.
WalkToNearest ==
    (Val(find_nearest_stop_for_shape(shape_map, stop_dist)).d * TPS * WALK_SPEED_DEN)
        \div WALK_SPEED_NUM

CappedWalkToNearest == Min(WalkToNearest, (TotalSeconds(time_minutes) * TPS * 7) \div 10)

\* The index of the stop of that name in the line.
IndexOfStop(stops, name) == CHOOSE k \in 1..Len(stops) : stops[k].name = name

\* generate_transit_isochrone: the time left (ticks) the disk of every emitted
\* stop was drawn with is the budget less the walk to the line's closest stop,
\* less overhead, less the ride.
RideTimeLeftIs(overhead) ==
    transit.pc # "idle" =>
        LET reached == ReachedWithRoute(transit)
            n == Len(Dirs)
        IN  \A k \in 1..Len(reached) :
                \A r \in DOMAIN get_transport_routes :
                    get_transport_routes[r].name = reached[k].route =>
                        LET stops == get_transport_routes[r].stops
                            closest == ClosestStop(stops, transit.center_lat,
                                                   transit.center_lon)
                            walk == (closest.distance * TPM) \div WALK_SPEED
                            idx == IndexOfStop(stops, reached[k].stop.name)
                            ride == (AlongDistance(stops, closest.index, idx) * TPM)
                                        \div SUBTE_SPEED
                            time_remaining == ((transit.all_reachable_points[n * k + 1].lat
                                                  - 25 * reached[k].stop.lat) * TPM)
                                              \div (25 * WALK_SPEED)
                        IN  time_remaining
                                = transit.minutes * TPM - walk - overhead - ride

----------------------------------------------------------------------------
(* C23: the disk radius of every emitted stop is its remaining time (the   *)
(* budget minus the time elapsed at the stop) multiplied by the walking    *)
(* speed, and the radius recorded in the debug data is the same value as   *)
(* the radius the disk is drawn with.                                      *)

\* The radius (1/25 m) the disk of the k-th emitted stop was drawn with.
DrawnRadius(st, k) ==
    st.all_reachable_points[Len(Dirs) * k + 1].lat - 25 * ReachedWithRoute(st)[k].stop.lat

\* The time left (ticks) at the k-th emitted stop: the budget less the walk to
\* the closest stop of its line and the ride from there.
TimeLeftAt(st, k) ==
    LET e == ReachedWithRoute(st)[k]
        r == CHOOSE x \in DOMAIN get_transport_routes :
                 get_transport_routes[x].name = e.route
        stops == get_transport_routes[r].stops
        closest == ClosestStop(stops, st.center_lat, st.center_lon)
    IN  st.minutes * TPM - (closest.distance * TPM) \div WALK_SPEED
        - (AlongDistance(stops, closest.index, IndexOfStop(stops, e.stop.name)) * TPM)
              \div SUBTE_SPEED

\* The drawn radius is time left x walking speed.
DrawnIsTimeLeftBySpeed ==
    transit.pc # "idle" =>
        \A k \in 1..Len(ReachedWithRoute(transit)) :
            DrawnRadius(transit, k) * TPM = TimeLeftAt(transit, k) * WALK_SPEED * 25

----------------------------------------------------------------------------
(* C24: generate_transit_isochrone rides backward and forward from the     *)
(* closest stop independently: each direction starts at the closest stop   *)
(* with accumulated distance zero, a direction is ridden only when the     *)
(* closest stop has a neighbour on that side, and a direction that stopped *)
(* for exceeding the budget leaves the other direction's stops unchanged.  *)

RECURSIVE RideAlone(_, _, _, _, _)
\* The stops a ride from the closest stop alone in one direction emits, from
\* stop k on: it goes on while the stop is reached with time left.
RideAlone(st, stops, closest, k, direction) ==
    IF ~(1 <= k /\ k <= Len(stops)) THEN <<>>
    ELSE IF (closest.distance * TPM) \div WALK_SPEED
            + (AlongDistance(stops, closest.index, k) * TPM) \div SUBTE_SPEED
                < st.minutes * TPM
         THEN <<stops[k].name>> \o RideAlone(st, stops, closest, k + direction, direction)
         ELSE <<>>

\* The names in a line's stops_reached.
NamesReached(route_debug) ==
    [k \in 1..Len(route_debug.stops_reached) |-> route_debug.stops_reached[k].name]

\* The direction being ridden has a neighbour of the closest stop on its side,
\* and its accumulated distance is the distance from the closest stop along
\* the line to the last stop visited, zero at the closest stop itself.
RideFromClosest ==
    transit.pc = "ride" =>
        LET stops == get_transport_routes[RouteOrder[transit.route_i]].stops
        IN  /\ transit.direction \in {-1, 1}
            /\ 1 <= transit.closest_stop_index + transit.direction
            /\ transit.closest_stop_index + transit.direction <= Len(stops)
            /\ transit.closest_stop_index
                   = ClosestStop(stops, transit.center_lat, transit.center_lon).index
            /\ (transit.idx - transit.closest_stop_index) * transit.direction >= 0
            /\ transit.accumulated_distance
                   = AlongDistance(stops, transit.closest_stop_index, transit.idx)
            /\ transit.idx = transit.closest_stop_index => transit.accumulated_distance = 0

\* A finished line's stops are those of the backward ride alone followed by
\* those of the forward ride alone.
C24_DirectionsIndependent ==
    /\ RideFromClosest
    /\ transit.pc # "idle" =>
           \A u \in 1..Len(transit.debug_info.routes_used) :
               \A r \in DOMAIN get_transport_routes :
                   get_transport_routes[r].name = transit.debug_info.routes_used[u].name =>
                       LET stops == get_transport_routes[r].stops
                           closest == ClosestStop(stops, transit.center_lat,
                                                  transit.center_lon)
                       IN  NamesReached(transit.debug_info.routes_used[u])
                               = RideAlone(transit, stops, closest, closest.index - 1, -1)
                                 \o RideAlone(transit, stops, closest, closest.index + 1, 1)

\* A returned trace of a line whose backward ride stopped for exceeding the
\* budget (a stop on that side is missing) and whose forward ride emitted.
C24_Witness ==
    /\ transit.pc = "done"
    /\ \E u \in 1..Len(transit.debug_info.routes_used) :
           \E r \in DOMAIN get_transport_routes :
               LET stops == get_transport_routes[r].stops
                   closest == ClosestStop(stops, transit.center_lat, transit.center_lon)
                   back == RideAlone(transit, stops, closest, closest.index - 1, -1)
                   forth == RideAlone(transit, stops, closest, closest.index + 1, 1)
               IN  /\ get_transport_routes[r].name = transit.debug_info.routes_used[u].name
                   /\ Len(back) < closest.index - 1
                   /\ forth # <<>>
                   /\ NamesReached(transit.debug_info.routes_used[u]) = back \o forth

----------------------------------------------------------------------------
(* C25: the travel time build_adjacency stores for a key is the median of  *)
(* the travel times seen on the trips that go from the key's stop to its   *)
(* majority successor, for an odd and for an even number of samples (the   *)
(* mean of the two middle values); samples of trips to another successor   *)
(* never enter it.                                                         *)

\* The row pairs of the table with their travel-time sample.
TimedPairs(trip) ==
    [i \in 1..(Len(trip.rows) - 1) |->
        [key |-> <<trip.route_id, trip.shape_id, trip.rows[i].stop_id>>,
         next |-> trip.rows[i + 1].stop_id,
         dt |-> PairTime(trip.rows[i], trip.rows[i + 1])]]

AllTimedPairs(trips) == Flatten([t \in 1..Len(trips) |-> TimedPairs(trips[t])])

\* The samples of the trips that go from the key's stop to next.
SamplesTo(trips, key, next) ==
    LET to == SelectSeq(AllTimedPairs(trips),
                        LAMBDA p : p.key = key /\ p.next = next /\ ~IsNone(p.dt))
    IN  [k \in 1..Len(to) |-> Val(to[k].dt)]

\* The r-th smallest of the samples.
OrderStatistic(samples, r) ==
    CHOOSE v \in {samples[k] : k \in 1..Len(samples)} :
        /\ Cardinality({k \in 1..Len(samples) : samples[k] < v}) <= r - 1
        /\ Cardinality({k \in 1..Len(samples) : samples[k] <= v}) >= r

\* The median of a non-empty list of samples as a fraction: the middle value,
\* or the mean of the two middle values.
MedianOf(samples) ==
    LET n == Len(samples)
    IN  IF n % 2 = 1 THEN <<OrderStatistic(samples, (n + 1) \div 2), 1>>
        ELSE <<OrderStatistic(samples, n \div 2) + OrderStatistic(samples, n \div 2 + 1), 2>>

\* The entries whose majority successor has samples.
TimedEntries ==
    {e \in 1..Len(bld.adjacency) :
        SamplesTo(bld.trips, bld.adjacency[e].key,
                  bld.adjacency[e].value.next_stop_id) # <<>>}

\* With no sample to the majority successor the stored time is absent, or
\* the estimate from the distance to that successor.
UntimedEntriesHaveNoMedian ==
    bld.pc = "done" =>
        \A e \in 1..Len(bld.adjacency) \ TimedEntries :
            LET value == bld.adjacency[e].value
            IN  \/ IsNone(value.travel_time)
                \/ /\ ~IsNone(value.travel_dist)
                   /\ value.travel_time = Some(FallbackTime(Val(value.travel_dist)))

\* C25 as claimed: the stored travel time is that median.
C25_StoredIsMedian ==
    /\ UntimedEntriesHaveNoMedian
    /\ bld.pc = "done" =>
           \A e \in TimedEntries :
               LET value == bld.adjacency[e].value
                   med == MedianOf(SamplesTo(bld.trips, bld.adjacency[e].key,
                                             value.next_stop_id))
               IN  /\ ~IsNone(value.travel_time)
                   /\ Val(value.travel_time) * med[2] = med[1]

\* C25 amended: the stored travel time is that median rounded to the whole
\* second, a half going to the even second.
C25_StoredIsMedianRounded ==
    /\ UntimedEntriesHaveNoMedian
    /\ bld.pc = "done" =>
           \A e \in TimedEntries :
               LET value == bld.adjacency[e].value
                   med == MedianOf(SamplesTo(bld.trips, bld.adjacency[e].key,
                                             value.next_stop_id))
               IN  /\ value.travel_time = Some(RoundHalfEven(med[1], med[2]))
                   /\ 2 * Abs(Val(value.travel_time) * med[2] - med[1]) <= med[2]

\* A finished table with a key whose majority successor has two samples of
\* odd sum, and which has a sample to another successor as well.
C25_Witness ==
    /\ bld.pc = "done"
    /\ \E e \in TimedEntries :
           LET key == bld.adjacency[e].key
               to == SamplesTo(bld.trips, key, bld.adjacency[e].value.next_stop_id)
           IN  /\ Len(to) = 2
               /\ (to[1] + to[2]) % 2 = 1
               /\ \E k \in 1..Len(AllTimedPairs(bld.trips)) :
                      LET p == AllTimedPairs(bld.trips)[k]
                      IN  /\ p.key = key
                          /\ p.next # bld.adjacency[e].value.next_stop_id
                          /\ ~IsNone(p.dt)
                          /\ Val(p.dt) > to[1] /\ Val(p.dt) > to[2]

----------------------------------------------------------------------------
(* C26: every travel-time sample of build_adjacency is the arrival time at *)
(* the next stop minus the departure time at the current stop whenever     *)
(* both parse, a departure of 00:00:00 included; the current stop's        *)
(* arrival time is used only when its departure time is missing or does    *)
(* not parse.                                                              *)

\* The first of two time texts that parses.
FirstParsed(a, b) ==
    IF ~IsNone(parse_time_to_seconds(a)) THEN parse_time_to_seconds(a)
    ELSE parse_time_to_seconds(b)

\* The sample of a pair of rows taken from the first time that parses on each
\* side, a negative difference moved one day up.
ParsedPairTime(row, next_row) ==
    LET dep_sec == FirstParsed(row.departure_time, row.arrival_time)
        arr_sec == FirstParsed(next_row.arrival_time, next_row.departure_time)
        dt == Val(arr_sec) - Val(dep_sec)
    IN  IF IsNone(dep_sec) \/ IsNone(arr_sec) THEN None
        ELSE IF dt < 0 THEN Some(dt + 24 * 3600)
        ELSE Some(dt)

\* The samples of the table from key's stop to next, taken that way.
ParsedSamplesTo(trips, key, next) ==
    LET timed(trip) ==
            [i \in 1..(Len(trip.rows) - 1) |->
                [key |-> <<trip.route_id, trip.shape_id, trip.rows[i].stop_id>>,
                 next |-> trip.rows[i + 1].stop_id,
                 dt |-> ParsedPairTime(trip.rows[i], trip.rows[i + 1])]]
        to == SelectSeq(Flatten([t \in 1..Len(trips) |-> timed(trips[t])]),
                        LAMBDA p : p.key = key /\ p.next = next /\ ~IsNone(p.dt))
    IN  [k \in 1..Len(to) |-> Val(to[k].dt)]

\* Once every row is read, travel_times holds those samples.
C26_SampleFromParsedDeparture ==
    bld.pc \in {"final", "done"} =>
        \A k \in 1..Len(AllPairs(bld.trips)) :
            LET p == AllPairs(bld.trips)[k]
            IN  Get(bld.travel_times, <<p.key, p.next>>)
                    = ParsedSamplesTo(bld.trips, p.key, p.next)

----------------------------------------------------------------------------
(* C27: a disk whose radius is zero or negative is absent for grouping:    *)
(* group_connected_circles never puts it in a group with another disk, and *)
(* it never brings two other disks into one group.                         *)

\* The disks of positive radius, in the order of the list.
ProperDisks(circles) == SelectSeq(circles, LAMBDA c : c.radius > 0)

C27_EmptyDiskStaysAlone ==
    grp.pc = "done" =>
        /\ \A a, b \in 1..Len(grp.circles) :
               a # b /\ grp.circles[a].radius <= 0 =>
                   ~SameGroup(grp.groups, grp.circles[a], grp.circles[b])
        /\ \A a, b \in 1..Len(grp.circles) :
               /\ grp.circles[a].radius > 0
               /\ grp.circles[b].radius > 0
               /\ SameGroup(grp.groups, grp.circles[a], grp.circles[b])
               => SameGroup(group_connected_circles(ProperDisks(grp.circles)),
                            grp.circles[a], grp.circles[b])

----------------------------------------------------------------------------
(* C28: after any sequence of requests every entry of isochrone_cache      *)
(* holds a feature built from a successful OpenRouteService response: the  *)
(* results of the transit computation, of the mock generator and of the    *)
(* fallback after a failed call are never written to it, so a              *)
(* public_transport request is never answered from the cache.              *)

\* The feature is the one lines 223-233 build from a response with features
\* for the key: it has neither the demo mark nor the debug data of the
\* features computed here, and its geometry is the response's.
FromOpenRouteService(key, feature) ==
    /\ feature.type = "Feature"
    /\ DOMAIN feature.properties = {"mode", "minutes", "color", "fillColor"}
    /\ feature.properties.mode = key.mode
    /\ feature.properties.minutes = key.minutes
    /\ feature.geometry = [type |-> "Polygon"]

\* A request answered with the value found in the cache.
AnsweredFromCache(st) ==
    /\ st.pc = "done"
    /\ Val(st.response).status = 200
    /\ Val(st.response).from_cache = Some(TRUE)

C28_CacheOnlyFromOpenRouteService ==
    /\ \A key \in DOMAIN isochrone_cache :
           /\ key.mode \in TRANSPORT_MODES \ {"public_transport"}
           /\ FromOpenRouteService(key, isochrone_cache[key].data)
    /\ isochrone_cache # <<>> => ORS_API_KEY # ""
    /\ \A r \in Threads :
           /\ AnsweredFromCache(req[r]) =>
                  /\ req[r].mode # "public_transport"
                  /\ FromOpenRouteService(Val(req[r].cache_key),
                                          Val(Val(req[r].response).isochrone))
           /\ req[r].pc \in {"read", "expiry", "del", "store"} =>
                  req[r].mode # "public_transport"

\* The cache holds an entry while one thread has answered a public_transport
\* request with its own computation and the other has answered with the
\* fallback after a failed call.
C28_Witness ==
    /\ isochrone_cache # <<>>
    /\ \E r, q \in Threads :
           /\ req[r].pc = "done" /\ req[r].mode = "public_transport"
           /\ Val(req[r].response).status = 200
           /\ Val(req[r].response).demo
           /\ req[q].pc = "done"
           /\ Val(req[q].response).error = "RequestException"
           /\ Val(req[q].cache_key) \in DOMAIN isochrone_cache

----------------------------------------------------------------------------
(* C29: a request without a JSON body (request.get_json() gives None) is   *)
(* answered with status 400 and the error 'Datos JSON requeridos'; no      *)
(* exception is raised before that test.                                   *)

C29_MissingBodyRejected ==
    \A r \in Threads :
        req[r].pc = "done" /\ IsNone(req[r].data) =>
            /\ Val(req[r].response).status = 400
            /\ Val(req[r].response).error = "Datos JSON requeridos"

----------------------------------------------------------------------------
(* C30: the list traverse_from_stop returns is a prefix of the successor   *)
(* chain of the start stop: the start stop first, then each stored         *)
(* successor in order without gaps; the time left of each emitted stop is  *)
(* total_seconds less the travel times of the edges before it, hence       *)
(* non-increasing along the list when no travel time is negative.          *)

\* No edge of the table has a negative travel time.
NoNegativeTravelTime ==
    \A s \in DOMAIN shape_map :
        ~(IsNone(shape_map[s].tt) /\ IsNone(shape_map[s].td)) => EdgeTime(shape_map[s]) >= 0

C30_PrefixOfSuccessorChain ==
    bus_pc = "loop" =>
        LET start == Val(find_nearest_stop_for_shape(shape_map, stop_dist)).stop
            results == trav.results
        IN  /\ results # <<>> => results[1].stop = start
            /\ \A i \in 1..Len(results) :
                   /\ results[i].stop \in DOMAIN shape_map
                   /\ results[i].next = shape_map[results[i].stop].next
                   /\ i > 1 => results[i].stop = results[i - 1].next
                   /\ results[i].time_left
                          = remaining - ChainTime(shape_map, start, results[i].stop)
            /\ NoNegativeTravelTime =>
                   \A i, j \in 1..Len(results) :
                       i < j => results[i].time_left >= results[j].time_left

====
